---- MODULE Spec2Model ----
(***************************************************************************)
(* Model of the `run` command of @kayahr/npm-utils (src/main/run.ts, kept  *)
(* in src/unnamed/part_007): the execution engine which starts the         *)
(* resolved script names as child processes, sequentially or in parallel,  *)
(* and the output buffering which lets only the primary command write to   *)
(* the real streams.                                                       *)
(*                                                                         *)
(* One child process exists per position of the resolved command list.    *)
(* The Node.js event loop is modelled by one action per event handler      *)
(* (data, error, close) and one action per continuation of `run` after an  *)
(* await.                                                                  *)
(***************************************************************************)
EXTENDS Integers, Sequences, FiniteSets, TLC

\* Largest number of data events (chunks) of one batch which is explored.
MaxChunks == 3

\* Largest number of data events of a run which is explored from `main` on.
MainChunks == 1

\* Longest pattern which is resolved against every short script name.
MaxPatternLen == 4

\* Longest script name which every short pattern is resolved against.
MaxNameLen == 3

\* Deepest working directory (number of parent directories) which is explored.
MaxDepth == 2

\* Twice the largest value given with --limit.
MaxLimitHalves == 5

\* The default of the limit option of removePatterns.
DefaultLimit == 64

\* Largest colour depth which a stream reports.
MaxColorDepth == 25

\* Script names. The engine never looks into a name, so the lists are explored up to renaming only,
\* and a list is at most as long as there are names.
Names == <<"a", "b", "c">>

\* Value of `getPrimaryCommand` when no command is running, and of a missing Map entry.
Null == "null"

\* The two piped output streams of a child (child.stdout and child.stderr).
Pipes == {"stdout", "stderr"}

\* Exit codes reported by the close event of a child.
ExitCodes == {0, 1}

VARIABLES
    parallel,           \* options.parallel
    commands,           \* the resolved command list
    pc,                 \* position: "main", then of `run`: "start", "await", "done", then "exited"
    current,            \* sequential mode: index of the command which is awaited
    child,              \* per list position: "idle", "running", "failing", "errored", "closed"
    promise,            \* per list position: state (and rejection reason) of the promise of runCommand
    runningCommands,    \* the Set<string> of running commands, in insertion order
    buffers,            \* the Map of buffers, in insertion order: sequence of [command, data]
    errors,             \* parallel mode: the gathered errors
    result,             \* outcome of `run`
    out,                \* every write to the real streams, in order
    sent,               \* history: per list position, the pipes its chunks arrived on, in order
    started,            \* history: list positions in the order in which they were spawned
    failed,             \* history: list positions in the order in which their promise was rejected
    buffered,           \* history: the chunks which were appended to a buffer
    argv,               \* the parsed command line: help, version, silent and the positionals
    fs,                 \* the file system: working directory, directories with a manifest, the script
                        \* names of the manifest in the order in which it declares them
    env,                \* process.env
    tty,                \* the colour depths of process.stdout and process.stderr
    exitCode,           \* the exit code returned by `main`: <<>> until it returns, then <<code>>
    printed,            \* the messages which `main` printed with console.log and console.error
    inspected,          \* history: the directories in which a manifest was looked for, in order
    spawns,             \* history: the spawn call of each started child, in order
    chunkLimit,         \* the number of data events which the children of this run emit at most
    level,              \* colors: <<>>, then <<the value returned by getColorLevel>>
    rm,                 \* the state of the rm command
    cp                  \* the state of the cp command

\* The variables of `main` which the execution engine leaves alone.
mainVars == <<argv, fs, env, tty, exitCode, printed, inspected, chunkLimit, level, rm, cp>>

vars == <<parallel, commands, pc, current, child, promise, runningCommands, buffers, errors, result, out,
          sent, started, failed, buffered, argv, fs, env, tty, exitCode, printed, inspected, spawns,
          chunkLimit, level, rm, cp>>

\* The number of children.
N == Len(commands)

\* The list positions.
Children == 1..N

----------------------------------------------------------------------------
(* Resolved command lists *)

\* TRUE when each name of the list is one of the earlier names or the first unused name.
RECURSIVE IsCanonical(_, _)
IsCanonical(list, used) ==
    IF list = <<>> THEN TRUE
    ELSE /\ \E k \in 1..(used + 1) : k <= Len(Names) /\ Head(list) = Names[k]
         /\ IsCanonical(Tail(list), IF used < Len(Names) /\ Head(list) = Names[used + 1]
                                    THEN used + 1 ELSE used)

\* All lists of exactly the given length over the first `len` names.
ListsOfLength(len) == [1..len -> {Names[k] : k \in 1..len}]

\* The resolved command lists which are explored: every list over the names, up to renaming.
CommandLists == {list \in UNION {ListsOfLength(len) : len \in 0..Len(Names)} : IsCanonical(list, 0)}

----------------------------------------------------------------------------
(* The running-command set and the buffer map *)

\* Set.add: appends the value unless it is already contained.
SetAdd(set, value) ==
    IF \E k \in 1..Len(set) : set[k] = value THEN set ELSE Append(set, value)

\* Set.delete: removes the value.
SetDelete(set, value) == SelectSeq(set, LAMBDA v : v # value)

\* The command which was added last to the running command set or Null if the set is empty.
getNewestCommand(running) ==
    IF running = <<>> THEN Null ELSE running[Len(running)]

\* The first command in the running command set or Null if the set is empty.
getPrimaryCommand(running) ==
    IF running = <<>> THEN Null ELSE running[1]

\* Map.has
HasBuffer(map, command) == \E k \in 1..Len(map) : map[k].command = command

\* Map.get of an existing entry.
GetBuffer(map, command) ==
    LET k == CHOOSE k \in 1..Len(map) : map[k].command = command IN map[k].data

\* Map.delete
DeleteBuffer(map, command) == SelectSeq(map, LAMBDA e : e.command # command)

\* The buffer map after a write which puts the text in front of the buffer of the command.
writeBuffersInFront(map, running, stream, text, command) ==
    IF getPrimaryCommand(running) = command THEN map
    ELSE LET entry == [stream |-> stream, text |-> text] IN
         IF HasBuffer(map, command)
         THEN [k \in 1..Len(map) |->
                  IF map[k].command = command
                  THEN [map[k] EXCEPT !.data = <<entry>> \o @]
                  ELSE map[k]]
         ELSE Append(map, [command |-> command, data |-> <<entry>>])

\* The buffer map after write(stream, text, command).
writeBuffers(map, running, stream, text, command) ==
    IF getPrimaryCommand(running) = command THEN map
    ELSE LET entry == [stream |-> stream, text |-> text] IN
         IF HasBuffer(map, command)
         THEN [k \in 1..Len(map) |->
                  IF map[k].command = command
                  THEN [map[k] EXCEPT !.data = Append(@, entry)]
                  ELSE map[k]]
         ELSE Append(map, [command |-> command, data |-> <<entry>>])

\* The writes to the real streams after write(stream, text, command).
writeOut(output, running, stream, text, command) ==
    IF getPrimaryCommand(running) = command
    THEN Append(output, [stream |-> stream, text |-> text])
    ELSE output

\* The buffer map after flush(command).
flushBuffers(map, command) ==
    IF command # Null /\ HasBuffer(map, command) THEN DeleteBuffer(map, command) ELSE map

\* The writes to the real streams after flush(command).
flushOut(map, output, command) ==
    IF command # Null /\ HasBuffer(map, command) THEN output \o GetBuffer(map, command) ELSE output

\* The writes to the real streams when the remaining buffers are dropped instead of flushed.
flushAllOutDropped(map, output) == output

\* The writes to the real streams of a flushAll() which starts with the newest buffer.
RECURSIVE flushAllOutNewestFirst(_, _)
flushAllOutNewestFirst(map, output) ==
    IF map = <<>> THEN output
    ELSE flushAllOutNewestFirst(flushBuffers(map, map[Len(map)].command),
                                flushOut(map, output, map[Len(map)].command))

\* The writes to the real streams after flushAll(), which leaves the buffer map empty.
RECURSIVE flushAllOut(_, _)
flushAllOut(map, output) ==
    IF map = <<>> THEN output
    ELSE flushAllOut(flushBuffers(map, map[1].command), flushOut(map, output, map[1].command))

\* The buffer map after flushAll().
RECURSIVE flushAllBuffers(_)
flushAllBuffers(map) ==
    IF map = <<>> THEN map ELSE flushAllBuffers(flushBuffers(map, map[1].command))

----------------------------------------------------------------------------
(* Errors *)

\* new Error(`${command} exited with code ${code}`)
ExitError(command, code) ==
    [message |-> [text |-> "exited with code", command |-> command, code |-> code]]

\* The error of the error event of a child which could not be spawned.
SpawnError == [message |-> [text |-> "spawn npm failed"]]

\* new AggregateError(errors, `Execution of ${errors.length} commands failed\n  ${messages.join("\n  ")}`)
AggregateError(errs) ==
    [message |-> [text |-> "Execution of commands failed", count |-> Len(errs),
                  messages |-> [k \in 1..Len(errs) |-> errs[k].message]],
     errors |-> errs]

\* The outcome of a parallel branch which reports the first gathered error only.
ParallelResultFirstError(errs) ==
    IF Len(errs) >= 1 THEN [status |-> "thrown", error |-> errs[1]]
    ELSE [status |-> "returned"]

\* The outcome of the parallel branch of `run` for the gathered errors.
ParallelResult(errs) ==
    IF Len(errs) = 1 THEN [status |-> "thrown", error |-> errs[1]]
    ELSE IF Len(errs) > 1 THEN [status |-> "thrown", error |-> AggregateError(errs)]
    ELSE [status |-> "returned"]

\* Promise.all(promises) is settled: as soon as one promise is rejected.
AllOrFirstRejected(promises) ==
    \/ \E i \in DOMAIN promises : promises[i].state = "rejected"
    \/ \A i \in DOMAIN promises : promises[i].state = "fulfilled"

\* A wait which ends only when every promise is fulfilled.
AllFulfilled(promises) == \A i \in DOMAIN promises : promises[i].state = "fulfilled"

\* Promise.allSettled(promises) is fulfilled.
AllSettled(promises) == \A i \in DOMAIN promises : promises[i].state \in {"fulfilled", "rejected"}

\* A started command is not awaited at all.
NotAwaited(p) == p.state \in {"pending", "fulfilled", "rejected"}

\* `await p` of the sequential loop can continue: the promise is settled.
Awaited(p) == p.state \in {"fulfilled", "rejected"}

\* The rejection of an awaited promise is swallowed.
AwaitNeverThrows(p) == FALSE

\* `await p` of the sequential loop throws the rejection reason: the promise is rejected.
AwaitThrows(p) == p.state = "rejected"

\* The parallel branch of `run` is taken whenever the parallel option is set.
IsParallelFlagOnly == parallel

\* The parallel branch of `run` is taken.
IsParallel == parallel /\ Len(commands) > 1

----------------------------------------------------------------------------
(* Script name patterns: commandToRegExp and resolveCommands *)
(* A script name or pattern is a sequence of characters. A regular       *)
(* expression source is a sequence of items: characters and the two       *)
(* fragments which commandToRegExp inserts for asterisks.                  *)

\* The characters which commandToRegExp escapes: the class [.+?^${}()|[\]\\]
RegExpSpecials == {".", "+", "?", "^", "$", "{", "}", "(", ")", "|", "[", "]", "\\"}

\* The fragment inserted for a single asterisk.
SegmentFragment == "[^:]+"

\* The fragment inserted for a run of two or more asterisks.
AnyFragment == ".*"

\* command.replace(/[.+?^${}()|[\]\\]/g, '\\$&') which escapes nothing.
EscapeNothing(command) == command

\* command.replace(/[.+?^${}()|[\]\\]/g, '\\$&'): a backslash in front of every special character.
RECURSIVE Escape(_)
Escape(command) ==
    IF command = <<>> THEN <<>>
    ELSE (IF Head(command) \in RegExpSpecials THEN <<"\\", Head(command)>> ELSE <<Head(command)>>)
         \o Escape(Tail(command))

\* The length of the run of asterisks at the start of the text.
RECURSIVE AsteriskRun(_)
AsteriskRun(text) ==
    IF text # <<>> /\ Head(text) = "*" THEN 1 + AsteriskRun(Tail(text)) ELSE 0

\* A replacement of asterisks which takes every asterisk for a single segment.
RECURSIVE ReplaceAsterisksEachSegment(_)
ReplaceAsterisksEachSegment(text) ==
    IF text = <<>> THEN <<>>
    ELSE IF Head(text) = "*" THEN <<SegmentFragment>> \o ReplaceAsterisksEachSegment(Tail(text))
    ELSE <<Head(text)>> \o ReplaceAsterisksEachSegment(Tail(text))

\* text.replace(/\*+/g, (a) => a.length === 1 ? "[^:]+" : ".*")
RECURSIVE ReplaceAsterisks(_)
ReplaceAsterisks(text) ==
    IF text = <<>> THEN <<>>
    ELSE LET run == AsteriskRun(text) IN
         IF run = 0 THEN <<Head(text)>> \o ReplaceAsterisks(Tail(text))
         ELSE <<IF run = 1 THEN SegmentFragment ELSE AnyFragment>>
              \o ReplaceAsterisks(SubSeq(text, run + 1, Len(text)))

\* The source of a regular expression which is not anchored to the ends of the script name.
commandToRegExpUnanchored(command) == ReplaceAsterisks(Escape(command))

\* The source of the regular expression for an unresolved script name.
commandToRegExp(command) == <<"^">> \o ReplaceAsterisks(Escape(command)) \o <<"$">>

\* The tokens of a regular expression source: an escaped character is that character, the unescaped
\* "." any character, "^" and "$" the anchors. The code escapes every other special character, so
\* none of them arrives here unescaped. Script names contain no line terminators.
RECURSIVE Compile(_)
Compile(source) ==
    IF source = <<>> THEN <<>>
    ELSE IF Head(source) = "\\" /\ Len(source) >= 2
         THEN <<<<"char", source[2]>>>> \o Compile(SubSeq(source, 3, Len(source)))
    ELSE LET token == CASE Head(source) = SegmentFragment -> <<"segment">>
                        [] Head(source) = AnyFragment -> <<"any">>
                        [] Head(source) = "." -> <<"dot">>
                        [] Head(source) = "^" -> <<"start">>
                        [] Head(source) = "$" -> <<"end">>
                        [] OTHER -> <<"char", Head(source)>>
         IN  <<token>> \o Compile(Tail(source))

\* TRUE when the tokens match the text from the given position on.
RECURSIVE MatchFrom(_, _, _)
MatchFrom(tokens, text, pos) ==
    IF tokens = <<>> THEN TRUE
    ELSE LET token == Head(tokens)
             rest == Tail(tokens)
         IN  CASE token[1] = "start" -> pos = 0 /\ MatchFrom(rest, text, pos)
               [] token[1] = "end" -> pos = Len(text) /\ MatchFrom(rest, text, pos)
               [] token[1] = "char" -> pos < Len(text) /\ text[pos + 1] = token[2] /\ MatchFrom(rest, text, pos + 1)
               [] token[1] = "dot" -> pos < Len(text) /\ MatchFrom(rest, text, pos + 1)
               [] token[1] = "segment" ->
                    \E k \in 1..(Len(text) - pos) :
                        /\ \A j \in (pos + 1)..(pos + k) : text[j] # ":"
                        /\ MatchFrom(rest, text, pos + k)
               [] token[1] = "any" -> \E k \in 0..(Len(text) - pos) : MatchFrom(rest, text, pos + k)

\* existingCommand.match(regexp) is not null.
Match(text, regexp) == \E pos \in 0..Len(text) : MatchFrom(Compile(regexp), text, pos)

\* A resolution which looks up every unresolved script name, with or without asterisk, in the
\* existing script names.
ResolveOneAlwaysFiltered(command, existingCommands) ==
    SelectSeq(existingCommands, LAMBDA existingCommand : Match(existingCommand, commandToRegExp(command)))

\* A resolution which keeps a pattern which matches nothing as a script name.
ResolveOneKeepUnmatched(command, existingCommands) ==
    LET matches == SelectSeq(existingCommands, LAMBDA existingCommand : Match(existingCommand, commandToRegExp(command)))
    IN  IF matches = <<>> THEN <<command>> ELSE matches

\* The resolved script names which a single unresolved script name contributes.
ResolveOne(command, existingCommands) ==
    IF \E k \in 1..Len(command) : command[k] = "*"
    THEN SelectSeq(existingCommands, LAMBDA existingCommand : Match(existingCommand, commandToRegExp(command)))
    ELSE <<command>>

\* commands.flatMap(...) of resolveCommands: the resolved script names.
RECURSIVE resolveCommands(_, _)
resolveCommands(unresolved, existingCommands) ==
    IF unresolved = <<>> THEN <<>>
    ELSE ResolveOne(Head(unresolved), existingCommands) \o resolveCommands(Tail(unresolved), existingCommands)

\* The decimal digits, each at the position of its value plus one.
Digits == <<"0", "1", "2", "3", "4", "5", "6", "7", "8", "9">>

\* The number which a sequence of digits denotes.
RECURSIVE NumericValue(_)
NumericValue(name) ==
    IF name = <<>> THEN 0
    ELSE LET last == name[Len(name)] IN
         10 * NumericValue(SubSeq(name, 1, Len(name) - 1)) + (CHOOSE d \in 1..Len(Digits) : Digits[d] = last) - 1

\* A property name which is an integer index: the canonical decimal form of a number. The script
\* names here are far shorter than the largest index.
IsIntegerIndex(name) ==
    /\ name # <<>>
    /\ \A k \in 1..Len(name) : \E d \in 1..Len(Digits) : Digits[d] = name[k]
    /\ Len(name) > 1 => name[1] # "0"

\* The given property names in ascending numeric order.
RECURSIVE Ascending(_)
Ascending(names) ==
    IF names = {} THEN <<>>
    ELSE LET least == CHOOSE name \in names : \A other \in names : NumericValue(name) <= NumericValue(other)
         IN  <<least>> \o Ascending(names \ {least})

\* Object.keys which returns the property names as they are declared.
ObjectKeysAsDeclared(declared) == declared

\* Object.keys(JSON.parse(...).scripts) for the script names in the order in which the manifest
\* declares them: the integer indices in ascending order, then the other names as declared.
ObjectKeys(declared) ==
    Ascending({declared[k] : k \in {k \in 1..Len(declared) : IsIntegerIndex(declared[k])}})
    \o SelectSeq(declared, LAMBDA name : ~IsIntegerIndex(name))

\* A sequence of characters as a string.
RECURSIVE Join(_)
Join(chars) == IF chars = <<>> THEN "" ELSE Head(chars) \o Join(Tail(chars))

----------------------------------------------------------------------------
(* Manifest lookup, environment and spawn options *)

\* The value of an environment variable which is not set.
Undefined == "undefined"

\* The file system root, whose parent directory is the root itself. A directory is the number of
\* its parent directories.
Root == 0

\* dirname(dir)
Dirname(dir) == IF dir = Root THEN dir ELSE dir - 1

\* A lookup which takes the manifest of the file system root for granted.
RECURSIVE findNearestPackageJsonRootUnchecked(_, _)
findNearestPackageJsonRootUnchecked(dir, manifests) ==
    IF dir \in manifests \/ dir = Root
    THEN [found |-> TRUE, dir |-> dir, inspected |-> <<dir>>]
    ELSE LET upper == findNearestPackageJsonRootUnchecked(Dirname(dir), manifests) IN
         [upper EXCEPT !.inspected = <<dir>> \o @]

\* A lookup which goes on to the file system root and returns the manifest which is found last.
RECURSIVE findFarthestPackageJson(_, _)
findFarthestPackageJson(dir, manifests) ==
    LET parent == Dirname(dir)
        here == [found |-> dir \in manifests, dir |-> dir, inspected |-> <<dir>>]
    IN  IF parent = dir THEN here
        ELSE LET upper == findFarthestPackageJson(parent, manifests) IN
             IF upper.found \/ ~here.found THEN [upper EXCEPT !.inspected = <<dir>> \o @]
             ELSE [here EXCEPT !.inspected = <<dir>> \o upper.inspected]

\* findNearestPackageJson(dir): whether a manifest was found, the directory of the manifest and
\* the directories which were inspected, in order.
RECURSIVE findNearestPackageJson(_, _)
findNearestPackageJson(dir, manifests) ==
    IF dir \in manifests
    THEN [found |-> TRUE, dir |-> dir, inspected |-> <<dir>>]
    ELSE LET parent == Dirname(dir) IN
         IF parent = dir
         THEN [found |-> FALSE, dir |-> dir, inspected |-> <<dir>>]
         ELSE LET upper == findNearestPackageJson(parent, manifests) IN
              [upper EXCEPT !.inspected = <<dir>> \o @]

\* new Error("Unable to locale package.json")
ManifestError == [message |-> [text |-> "Unable to locale package.json"]]

\* stream.getColorDepth?.() ?? 1 for a stream which is <<>> without getColorDepth and <<depth>> with it.
ColorDepth(stream) == IF stream = <<>> THEN 1 ELSE stream[1]

\* A colour level which follows the larger of the two colour depths.
getColorLevelOfLarger(streams) ==
    LET stdoutDepth == ColorDepth(streams.stdout)
        stderrDepth == ColorDepth(streams.stderr)
        depth == IF stdoutDepth > stderrDepth THEN stdoutDepth ELSE stderrDepth
    IN  CASE depth = 4 -> 1
          [] depth = 8 -> 2
          [] depth = 24 -> 3
          [] OTHER -> 0

\* getColorLevel() of colors.ts
getColorLevel(streams) ==
    LET stdoutDepth == ColorDepth(streams.stdout)
        stderrDepth == ColorDepth(streams.stderr)
        depth == IF stdoutDepth < stderrDepth THEN stdoutDepth ELSE stderrDepth
    IN  CASE depth = 4 -> 1
          [] depth = 8 -> 2
          [] depth = 24 -> 3
          [] OTHER -> 0

\* An environment of a child in which the colour level replaces the FORCE_COLOR of the caller.
ChildEnvOverridingCaller(environment, streams, isParallel) ==
    IF isParallel
    THEN [environment EXCEPT !.FORCE_COLOR = ToString(getColorLevel(streams))]
    ELSE environment

\* The environment of a child: { ...process.env } with FORCE_COLOR ??= String(getColorLevel()) when parallel.
ChildEnv(environment, streams, isParallel) ==
    IF isParallel /\ environment.FORCE_COLOR = Undefined
    THEN [environment EXCEPT !.FORCE_COLOR = ToString(getColorLevel(streams))]
    ELSE environment

\* A spawn call which passes the silent option after the script name.
SpawnOptionLast(command, isParallel) ==
    [file |-> "npm",
     args |-> <<"run", command>> \o (IF argv.silent THEN <<"-s">> ELSE <<>>),
     stdio |-> <<"inherit", IF isParallel THEN "pipe" ELSE "inherit", IF isParallel THEN "pipe" ELSE "inherit">>,
     env |-> ChildEnv(env, tty, isParallel)]

\* The spawn call of runCommand(command, { parallel, silent }).
Spawn(command, isParallel) ==
    [file |-> "npm",
     args |-> <<"run">> \o (IF argv.silent THEN <<"-s">> ELSE <<>>) \o <<command>>,
     stdio |-> <<"inherit", IF isParallel THEN "pipe" ELSE "inherit", IF isParallel THEN "pipe" ELSE "inherit">>,
     env |-> ChildEnv(env, tty, isParallel)]

\* An environment as it is when the command is run through NPM in a terminal.
DefaultEnv == [npm_execpath |-> "npm-cli.js", FORCE_COLOR |-> Undefined]

\* A terminal with 256 colours on both streams.
DefaultTty == [stdout |-> <<8>>, stderr |-> <<8>>]

----------------------------------------------------------------------------
(* State machine *)

Init ==
    /\ parallel \in BOOLEAN
    /\ commands \in CommandLists
    /\ pc = "start"
    /\ current = 0
    /\ child = [i \in 1..Len(commands) |-> "idle"]
    /\ promise = [i \in 1..Len(commands) |-> [state |-> "none"]]
    /\ runningCommands = <<>>
    /\ buffers = <<>>
    /\ errors = <<>>
    /\ result = [status |-> "pending"]
    /\ out = <<>>
    /\ sent = [i \in 1..Len(commands) |-> <<>>]
    /\ started = <<>>
    /\ failed = <<>>
    /\ buffered = {}
    /\ argv = [help |-> FALSE, version |-> FALSE, silent |-> FALSE,
               positionals |-> IF commands = <<>> THEN <<<<"*">>>> ELSE [i \in 1..Len(commands) |-> <<commands[i]>>]]
    /\ fs = [cwd |-> Root, manifests |-> {Root}, scripts |-> <<>>]
    /\ env = DefaultEnv
    /\ tty = DefaultTty
    /\ exitCode = <<>>
    /\ printed = <<>>
    /\ inspected = <<Root>>
    /\ spawns = <<>>
    /\ chunkLimit = MaxChunks
    /\ level = <<>>
    /\ rm = [pc |-> "idle"]
    /\ cp = [pc |-> "idle"]

\* The running command set after runCommand was called for the given list positions, in order.
RECURSIVE AddAll(_, _)
AddAll(running, list) ==
    IF list = <<>> THEN running ELSE AddAll(SetAdd(running, Head(list)), Tail(list))

\* A parallel branch which starts the first command only before it waits.
RunParallelFirstOnly ==
    /\ pc = "start"
    /\ IsParallel
    /\ \E spawned \in {"running", "failing"} : child' = [child EXCEPT ![1] = spawned]
    /\ promise' = [i \in Children |-> [state |-> IF i = 1 THEN "pending" ELSE "fulfilled"]]
    /\ runningCommands' = SetAdd(runningCommands, commands[1])
    /\ started' = <<1>>
    /\ pc' = "await"
    /\ spawns' = Append(spawns, Spawn(commands[1], TRUE))
    /\ UNCHANGED <<parallel, commands, current, buffers, errors, result, out, sent, failed, buffered>>
    /\ UNCHANGED mainVars

\* run, parallel branch up to the await: starts every command in list order.
\* Each spawn either succeeds or fails, in which case the child emits an error event later.
RunParallel ==
    /\ pc = "start"
    /\ IsParallel
    /\ \E spawned \in [Children -> {"running", "failing"}] : child' = spawned
    /\ promise' = [i \in Children |-> [state |-> "pending"]]
    /\ runningCommands' = AddAll(runningCommands, commands)
    /\ started' = [i \in Children |-> i]
    /\ pc' = "await"
    /\ spawns' = spawns \o [i \in Children |-> Spawn(commands[i], TRUE)]
    /\ UNCHANGED <<parallel, commands, current, buffers, errors, result, out, sent, failed, buffered>>
    /\ UNCHANGED mainVars

\* runCommand for list position i in sequential mode, as part of an action of `run`.
StartSequential(i) ==
    /\ \E spawned \in {"running", "failing"} : child' = [child EXCEPT ![i] = spawned]
    /\ promise' = [promise EXCEPT ![i] = [state |-> "pending"]]
    /\ runningCommands' = SetAdd(runningCommands, commands[i])
    /\ started' = Append(started, i)
    /\ spawns' = Append(spawns, Spawn(commands[i], FALSE))
    /\ current' = i
    /\ pc' = "await"

\* run, sequential branch up to the first await: starts the first command, or returns when there is none.
RunSequential ==
    /\ pc = "start"
    /\ ~IsParallel
    /\ IF commands = <<>>
       THEN /\ pc' = "done"
            /\ result' = [status |-> "returned"]
            /\ UNCHANGED <<current, child, promise, runningCommands, started, spawns>>
       ELSE /\ StartSequential(1)
            /\ UNCHANGED result
    /\ UNCHANGED <<parallel, commands, buffers, errors, out, sent, failed, buffered>>
    /\ UNCHANGED mainVars

\* The number of chunks received so far from all children.
RECURSIVE ChunkCount(_)
ChunkCount(i) == IF i = 0 THEN 0 ELSE Len(sent[i]) + ChunkCount(i - 1)

\* The n-th chunk of child i, which arrived on the given pipe of the child.
Chunk(i, n, pipe) == [child |-> i, seq |-> n, pipe |-> pipe]

\* The real stream which the handlers of a pipe of a child are bound to.
Target(pipe) == IF pipe = "stdout" THEN "stdout" ELSE "stderr"

\* The data handler of the stdout or stderr pipe of child i (parallel mode only).
Data(i, pipe) ==
    /\ IsParallel
    /\ child[i] = "running"
    /\ ChunkCount(N) < chunkLimit
    /\ LET text == Chunk(i, Len(sent[i]) + 1, pipe) IN
       /\ out' = writeOut(out, runningCommands, Target(pipe), text, commands[i])
       /\ buffers' = writeBuffers(buffers, runningCommands, Target(pipe), text, commands[i])
       /\ buffered' = IF buffers' # buffers THEN buffered \cup {text} ELSE buffered
    /\ sent' = [sent EXCEPT ![i] = Append(@, pipe)]
    /\ UNCHANGED <<parallel, commands, pc, current, child, promise, runningCommands, errors, result,
                   started, failed>>
    /\ UNCHANGED <<mainVars, spawns>>

\* A rejection which is recorded also when the promise of child i is settled already.
RejectAlsoWhenSettled(i, error) ==
    /\ promise' = [promise EXCEPT ![i] = [state |-> "rejected", reason |-> error]]
    /\ errors' = IF IsParallel THEN Append(errors, error) ELSE errors
    /\ failed' = Append(failed, i)

\* The promise of child i is rejected with the given error, unless it is settled already.
\* In parallel mode the catch callback registered by `run` records the error.
Reject(i, error) ==
    IF promise[i].state = "pending"
    THEN /\ promise' = [promise EXCEPT ![i] = [state |-> "rejected", reason |-> error]]
         /\ errors' = IF IsParallel THEN Append(errors, error) ELSE errors
         /\ failed' = Append(failed, i)
    ELSE UNCHANGED <<promise, errors, failed>>

\* The promise of child i is fulfilled, unless it is settled already.
Resolve(i) ==
    IF promise[i].state = "pending"
    THEN /\ promise' = [promise EXCEPT ![i] = [state |-> "fulfilled"]]
         /\ UNCHANGED <<errors, failed>>
    ELSE UNCHANGED <<promise, errors, failed>>

\* The error handler of child i: the child could not be spawned.
ErrorEvent(i) ==
    /\ child[i] = "failing"
    /\ child' = [child EXCEPT ![i] = "errored"]
    /\ Reject(i, SpawnError)
    /\ UNCHANGED <<parallel, commands, pc, current, runningCommands, buffers, result, out, sent, started,
                   buffered>>
    /\ UNCHANGED <<mainVars, spawns>>

\* The close handler of child i.
Close(i, code) ==
    /\ child[i] \in {"running", "errored"}
    /\ child' = [child EXCEPT ![i] = "closed"]
    /\ runningCommands' = SetDelete(runningCommands, commands[i])
    /\ out' = flushOut(buffers, out, getPrimaryCommand(runningCommands'))
    /\ buffers' = flushBuffers(buffers, getPrimaryCommand(runningCommands'))
    /\ IF code = 0 THEN Resolve(i) ELSE Reject(i, ExitError(commands[i], code))
    /\ UNCHANGED <<parallel, commands, pc, current, result, sent, started, buffered>>
    /\ UNCHANGED <<mainVars, spawns>>

\* run, parallel branch after the await: flushes all buffers and reports the gathered errors.
ResumeParallel ==
    /\ pc = "await"
    /\ IsParallel
    /\ AllSettled(promise)
    /\ out' = flushAllOut(buffers, out)
    /\ buffers' = flushAllBuffers(buffers)
    /\ result' = ParallelResult(errors)
    /\ pc' = "done"
    /\ UNCHANGED <<parallel, commands, current, child, promise, runningCommands, errors, sent,
                   started, failed, buffered>>
    /\ UNCHANGED <<mainVars, spawns>>

\* run, sequential branch after an await: starts the next command, returns after the last one
\* or throws the error of the awaited command.
ResumeSequential ==
    /\ pc = "await"
    /\ ~IsParallel
    /\ Awaited(promise[current])
    /\ IF AwaitThrows(promise[current])
       THEN /\ result' = [status |-> "thrown", error |-> promise[current].reason]
            /\ pc' = "done"
            /\ UNCHANGED <<current, child, promise, runningCommands, started, spawns>>
       ELSE IF current < N
       THEN /\ StartSequential(current + 1)
            /\ UNCHANGED result
       ELSE /\ result' = [status |-> "returned"]
            /\ pc' = "done"
            /\ UNCHANGED <<current, child, promise, runningCommands, started, spawns>>
    /\ UNCHANGED <<parallel, commands, buffers, errors, out, sent, failed, buffered>>
    /\ UNCHANGED mainVars

Next ==
    \/ RunParallel
    \/ RunSequential
    \/ \E i \in Children, pipe \in Pipes : Data(i, pipe)
    \/ \E i \in Children : ErrorEvent(i)
    \/ \E i \in Children, code \in ExitCodes : Close(i, code)
    \/ ResumeParallel
    \/ ResumeSequential

Spec == Init /\ [][Next]_vars

----------------------------------------------------------------------------
(* main *)

\* console.log(text) and console.error(text)
ConsoleLog(text) == [stream |-> "stdout", text |-> text]
ConsoleError(text) == [stream |-> "stderr", text |-> text]

\* The texts which `main` prints.
HelpText == [text |-> "Usage: run [OPTION]... [COMMAND]..."]
VersionText == [text |-> "run version"]
UsageHint == [text |-> "run: missing script name", hint |-> "Try 'cmd --help' for more information."]
ErrorText(error) == [prefix |-> "run:", message |-> error.message]

\* A check for script names which never misses one.
MissingScriptNameNever(positionals) == FALSE

\* positionals.length === 0
MissingScriptName(positionals) == Len(positionals) = 0

\* main up to the first command: parses the arguments, answers --help and --version, rejects
\* an empty script list and otherwise enters `run`, which looks up the manifest and resolves
\* the script names.
Main ==
    /\ pc = "main"
    /\ IF argv.help \/ argv.version
       THEN /\ printed' = Append(printed, ConsoleLog(IF argv.help THEN HelpText ELSE VersionText))
            /\ exitCode' = <<0>>
            /\ pc' = "exited"
            /\ UNCHANGED <<inspected, commands, child, promise, sent, result>>
       ELSE IF MissingScriptName(argv.positionals)
       THEN /\ printed' = Append(printed, ConsoleError(UsageHint))
            /\ exitCode' = <<2>>
            /\ pc' = "exited"
            /\ UNCHANGED <<inspected, commands, child, promise, sent, result>>
       ELSE LET packageJSONFile == findNearestPackageJson(fs.cwd, fs.manifests) IN
            /\ inspected' = packageJSONFile.inspected
            /\ IF ~packageJSONFile.found
               THEN /\ result' = [status |-> "thrown", error |-> ManifestError]
                    /\ pc' = "done"
                    /\ UNCHANGED <<commands, child, promise, sent>>
               ELSE LET resolved == resolveCommands(argv.positionals, ObjectKeys(fs.scripts)) IN
                    /\ commands' = [k \in 1..Len(resolved) |-> Join(resolved[k])]
                    /\ child' = [i \in 1..Len(resolved) |-> "idle"]
                    /\ promise' = [i \in 1..Len(resolved) |-> [state |-> "none"]]
                    /\ sent' = [i \in 1..Len(resolved) |-> <<>>]
                    /\ pc' = "start"
                    /\ UNCHANGED result
            /\ UNCHANGED <<printed, exitCode>>
    /\ UNCHANGED <<parallel, current, runningCommands, buffers, errors, out, started, failed, buffered,
                   argv, fs, env, tty, spawns, chunkLimit, level, rm, cp>>

\* The exit code which is always 0.
MainExitCodeAlwaysZero(outcome) == 0

\* The exit code of `main` for the outcome of `run`.
MainExitCode(outcome) == IF outcome.status = "returned" THEN 0 ELSE 1

\* main after `run`: returns 0, or catches the error of `run`, prints it and returns 1.
MainReturn ==
    /\ pc = "done"
    /\ exitCode' = <<MainExitCode(result)>>
    /\ printed' = IF result.status = "thrown" THEN Append(printed, ConsoleError(ErrorText(result.error)))
                  ELSE printed
    /\ pc' = "exited"
    /\ UNCHANGED <<parallel, commands, current, child, promise, runningCommands, buffers, errors, result,
                   out, sent, started, failed, buffered, argv, fs, env, tty, inspected, spawns, chunkLimit,
                   level, rm, cp>>

\* The state of the run command before `main` is called with the given command line, file system,
\* environment and terminal.
RunInitWith(isParallel, arguments, files, environment, streams, limit) ==
    /\ parallel = isParallel
    /\ argv = arguments
    /\ fs = files
    /\ env = environment
    /\ tty = streams
    /\ chunkLimit = limit
    /\ commands = <<>>
    /\ pc = "main"
    /\ current = 0
    /\ child = <<>>
    /\ promise = <<>>
    /\ runningCommands = <<>>
    /\ buffers = <<>>
    /\ errors = <<>>
    /\ result = [status |-> "pending"]
    /\ out = <<>>
    /\ sent = <<>>
    /\ started = <<>>
    /\ failed = <<>>
    /\ buffered = {}
    /\ exitCode = <<>>
    /\ printed = <<>>
    /\ inspected = <<>>
    /\ spawns = <<>>

\* The state before `main` of the run command is called; the other commands are not running.
MainInitWith(isParallel, arguments, files, environment, streams, limit) ==
    /\ RunInitWith(isParallel, arguments, files, environment, streams, limit)
    /\ level = <<>>
    /\ rm = [pc |-> "idle"]
    /\ cp = [pc |-> "idle"]

\* Sequences of at most the given length over the given set.
SeqsUpTo(set, len) == UNION {[1..n -> set] : n \in 0..len}

\* Sequences without repetition, as the keys of a JSON object are.
Distinct(seqs) == {q \in seqs : \A i, j \in 1..Len(q) : q[i] = q[j] => i = j}

\* Command line without options for the given script names.
Argv(positionals) == [help |-> FALSE, version |-> FALSE, silent |-> FALSE, positionals |-> positionals]

\* A package with the given scripts in the working directory.
Package(scripts) == [cwd |-> Root, manifests |-> {Root}, scripts |-> scripts]

\* Script name patterns and script registries of the explored command lines.
MainPatterns == {<<"x", ":", "*">>, <<"x", ":", "*", "*">>, <<"x", ":", "x">>, <<"y", ":", "*">>, <<"y">>, <<"*">>}
MainRegistries == {<<>>, <<<<"x", ":", "x">>>>, <<<<"x", ":", "x">>, <<"x", ":", "x", ":", "x">>>>, <<<<"y">>, <<"2">>>>}

\* Colour depths of a stream: <<>> is a stream without getColorDepth.
ColorDepths == {<<>>, <<1>>, <<4>>, <<8>>, <<24>>}

\* The explored calls of `main`: command lines of up to two patterns against the registries,
\* one and two commands in every environment and terminal, and the options and manifest
\* locations with and without a script name.
MainInit ==
    \/ \E isParallel \in BOOLEAN, positionals \in SeqsUpTo(MainPatterns, 2), scripts \in MainRegistries :
           MainInitWith(isParallel, Argv(positionals), Package(scripts), DefaultEnv, DefaultTty, MainChunks)
    \/ \E isParallel \in BOOLEAN, silent \in BOOLEAN,
          positionals \in {<<<<"x", ":", "x">>>>, <<<<"x", ":", "x">>, <<"y">>>>},
          execpath \in {Undefined, "npm-cli.js"}, color \in {Undefined, "1"},
          stdoutDepth \in ColorDepths, stderrDepth \in ColorDepths :
           MainInitWith(isParallel, [Argv(positionals) EXCEPT !.silent = silent], Package(<<>>),
                        [npm_execpath |-> execpath, FORCE_COLOR |-> color],
                        [stdout |-> stdoutDepth, stderr |-> stderrDepth], MainChunks)
    \/ \E isParallel \in BOOLEAN, isHelp \in BOOLEAN, isVersion \in BOOLEAN,
          positionals \in {<<>>, <<<<"x", ":", "x">>>>},
          cwd \in Root..MaxDepth, manifests \in SUBSET (Root..MaxDepth) :
           MainInitWith(isParallel, [Argv(positionals) EXCEPT !.help = isHelp, !.version = isVersion],
                        [cwd |-> cwd, manifests |-> manifests, scripts |-> <<>>],
                        DefaultEnv, DefaultTty, MainChunks)

MainNext ==
    \/ Main
    \/ MainReturn
    \/ Next

MainSpec == MainInit /\ [][MainNext]_vars

\* A child which is alive exits at some time, and a child which could not be spawned emits its
\* error event at some time.
ChildrenEnd ==
    /\ WF_vars(\E i \in Children, code \in ExitCodes : child[i] = "running" /\ Close(i, code))
    /\ WF_vars(\E i \in Children : ErrorEvent(i))

\* The event loop runs every continuation of `main` and `run` which is ready.
ContinuationsRun ==
    /\ WF_vars(Main)
    /\ WF_vars(RunParallel)
    /\ WF_vars(RunSequential)
    /\ WF_vars(ResumeParallel)
    /\ WF_vars(ResumeSequential)
    /\ WF_vars(MainReturn)

\* The command lines which are explored for termination: they resolve to no, one, two or three
\* commands, also to the same command twice.
FairCommandLines ==
    {<<<<"y">>>>, <<<<"x", ":", "*", "*">>>>, <<<<"x", ":", "*", "*">>, <<"y">>>>, <<<<"y">>, <<"x", ":", "*", "*">>>>,
     <<<<"y">>, <<"y">>>>, <<<<"x", ":", "x">>, <<"x", ":", "*">>>>}

\* The calls of `main` which are explored for termination: these command lines against the
\* registries, and the options and manifest locations with and without a script name.
FairInit ==
    \/ \E isParallel \in BOOLEAN, positionals \in FairCommandLines, scripts \in MainRegistries :
           MainInitWith(isParallel, Argv(positionals), Package(scripts), DefaultEnv, DefaultTty, MainChunks)
    \/ \E isParallel \in BOOLEAN, isHelp \in BOOLEAN, isVersion \in BOOLEAN,
          positionals \in {<<>>, <<<<"x", ":", "x">>>>},
          cwd \in Root..MaxDepth, manifests \in SUBSET (Root..MaxDepth) :
           MainInitWith(isParallel, [Argv(positionals) EXCEPT !.help = isHelp, !.version = isVersion],
                        [cwd |-> cwd, manifests |-> manifests, scripts |-> <<>>],
                        DefaultEnv, DefaultTty, MainChunks)

FairSpec == FairInit /\ [][MainNext]_vars /\ ChildrenEnd /\ ContinuationsRun

\* Characters of script names, and of patterns.
NameChars == {"x", ":", "."}
PatternChars == NameChars \cup {"*"}

\* The explored resolutions: every short pattern against every registry of at most one short
\* script name, and up to two of a few patterns against every registry of up to three of a
\* few script names.
ResolvePatterns == {<<"x", ":", "*">>, <<"x", ":", "*", "*">>, <<"*">>, <<"x", ":", "x">>, <<"x">>}
ResolveNames == {<<"x">>, <<"x", ":", "x">>, <<"x", ":", "x", ":", "x">>, <<"x", ":", ".">>, <<"2">>, <<"1", "0">>}

ResolveInit ==
    \/ \E pattern \in SeqsUpTo(PatternChars, MaxPatternLen),
          scripts \in SeqsUpTo(SeqsUpTo(NameChars, MaxNameLen), 1) :
           MainInitWith(FALSE, Argv(<<pattern>>), Package(scripts), DefaultEnv, DefaultTty, MainChunks)
    \/ \E positionals \in SeqsUpTo(ResolvePatterns, 2) \ {<<>>},
          scripts \in Distinct(SeqsUpTo(ResolveNames, 3)) :
           MainInitWith(FALSE, Argv(positionals), Package(scripts), DefaultEnv, DefaultTty, MainChunks)

ResolveSpec == ResolveInit /\ [][Main]_vars

\* The segments of names and the tokens of patterns which are put together with colons.
NameSegments == {<<>>, <<"x">>, <<"y">>}
PatternTokens == {<<"x">>, <<"*">>, <<"*", "*">>}

\* parts.join(":")
RECURSIVE JoinWithColons(_)
JoinWithColons(parts) ==
    IF Len(parts) = 1 THEN Head(parts) ELSE Head(parts) \o <<":">> \o JoinWithColons(Tail(parts))

\* The explored resolutions of patterns of whole tokens: every pattern of one to three tokens
\* against every registry of at most one script name of one to four segments.
TokenInit ==
    \E tokens \in UNION {[1..n -> PatternTokens] : n \in 1..3},
       scripts \in {<<>>} \cup {<<JoinWithColons(segments)>> : segments \in UNION {[1..n -> NameSegments] : n \in 1..4}} :
        MainInitWith(FALSE, Argv(<<JoinWithColons(tokens)>>), Package(scripts), DefaultEnv, DefaultTty, MainChunks)

TokenSpec == TokenInit /\ [][Main]_vars

----------------------------------------------------------------------------
(* colors *)

\* A call of getColorLevel().
GetColorLevel ==
    /\ level = <<>>
    /\ level' = <<getColorLevel(tty)>>
    /\ UNCHANGED <<parallel, commands, pc, current, child, promise, runningCommands, buffers, errors, result,
                   out, sent, started, failed, buffered, argv, fs, env, tty, exitCode, printed, inspected,
                   spawns, chunkLimit, rm, cp>>

\* The streams of the process: each without getColorDepth or with any colour depth.
AllColorDepths == {<<>>} \cup {<<depth>> : depth \in 0..MaxColorDepth}

ColorInit ==
    \E stdoutDepth \in AllColorDepths, stderrDepth \in AllColorDepths :
        /\ RunInitWith(FALSE, Argv(<<>>), Package(<<>>), DefaultEnv,
                       [stdout |-> stdoutDepth, stderr |-> stderrDepth], MainChunks)
        /\ level = <<>>
        /\ rm = [pc |-> "idle"]
        /\ cp = [pc |-> "idle"]

ColorSpec == ColorInit /\ [][GetColorLevel]_vars

----------------------------------------------------------------------------
(* rm *)

\* The paths of the file system, in the order in which glob yields them. A pattern is the set of
\* paths which it denotes: one path for a plain file name, any number of paths for a glob pattern.
PathOrder == <<"a.txt", "b.txt", "c.txt">>
Paths == {PathOrder[k] : k \in 1..Len(PathOrder)}

\* The values of Number(values.limit): not a number, or a number given as the count of its halves.
NaN == [kind |-> "nan", halves |-> 0]
Num(halves) == [kind |-> "number", halves |-> halves]

\* limit = Math.max(Math.floor(limit), 1) which takes the limit as it is given.
EffectiveLimitAsGiven(limit) == limit

\* limit = Math.max(Math.floor(limit), 1): NaN stays NaN.
EffectiveLimit(limit) ==
    IF limit.kind = "nan" THEN NaN
    ELSE LET floor == limit.halves \div 2 IN Num(2 * (IF floor > 1 THEN floor ELSE 1))

\* tasks.size >= limit, which is false for NaN
MustWait(size, limit) == limit.kind = "number" /\ 2 * size >= limit.halves

\* glob(pattern) which yields every path of the pattern, existing or not.
GlobUnchecked(pattern, files) == SelectSeq(PathOrder, LAMBDA path : path \in pattern)

\* glob(pattern): the existing paths which the pattern denotes.
Glob(pattern, files) == SelectSeq(PathOrder, LAMBDA path : path \in pattern \cap files)

\* The errors of the rm primitive.
RmError(code, path) == [message |-> [text |-> code, path |-> path]]

\* The outcome of fs.rm(path, { force }) on the files, of which the protected ones cannot be removed.
RmOutcome(path, files, protected, force) ==
    IF path \notin files
    THEN IF force THEN [ok |-> TRUE, files |-> files]
         ELSE [ok |-> FALSE, files |-> files, error |-> RmError("ENOENT: no such file or directory", path)]
    ELSE IF path \in protected
    THEN [ok |-> FALSE, files |-> files, error |-> RmError("EACCES: permission denied", path)]
    ELSE [ok |-> TRUE, files |-> files \ {path}]

\* new AggregateError(errors, `Failed to remove ${errors.length} files\n  ${messages.join("\n  ")}`)
RmAggregateError(errs) ==
    [message |-> [text |-> "Failed to remove files", count |-> Len(errs),
                  messages |-> [k \in 1..Len(errs) |-> errs[k].message]],
     errors |-> errs]

\* The variables which rm leaves alone.
notRm == <<parallel, commands, pc, current, child, promise, runningCommands, buffers, errors, result, out,
           sent, started, failed, buffered, argv, fs, env, tty, exitCode, printed, inspected, spawns,
           chunkLimit, level, cp>>

\* The texts which rm prints.
RmUsageHint == [text |-> "rm: missing pattern", hint |-> "Try 'rm --help' for more information."]
WouldRemove(path) == [text |-> "would remove", path |-> path]
Removed(path) == [text |-> "removed", path |-> path]
RmErrorText(error) == [prefix |-> "rm:", message |-> error.message]

\* main of rm up to the first pattern: answers --help and --version, rejects an empty pattern list
\* and otherwise enters removePatterns, which fixes the limit.
RmMain ==
    /\ rm.pc = "main"
    /\ IF rm.opts.help \/ rm.opts.version
       THEN rm' = [rm EXCEPT !.pc = "exited", !.exitCode = <<0>>,
                             !.printed = Append(@, ConsoleLog(IF rm.opts.help THEN HelpText ELSE VersionText))]
       ELSE IF Len(rm.patterns) = 0
       THEN rm' = [rm EXCEPT !.pc = "exited", !.exitCode = <<2>>,
                             !.printed = Append(@, ConsoleError(RmUsageHint))]
       ELSE rm' = [rm EXCEPT !.pc = "glob",
                             !.limit = EffectiveLimit(IF rm.opts.limit = <<>> THEN Num(2 * DefaultLimit)
                                                      ELSE rm.opts.limit[1])]
    /\ UNCHANGED notRm

\* removePatterns at the end of the matches of a pattern: glob of the next pattern starts, or
\* after the last pattern the wait for all tasks.
RmNextPattern ==
    /\ rm.pc = "glob"
    /\ rm.queue = <<>>
    /\ IF rm.pattern < Len(rm.patterns)
       THEN rm' = [rm EXCEPT !.pattern = @ + 1, !.queue = Glob(rm.patterns[rm.pattern + 1], rm.files)]
       ELSE rm' = [rm EXCEPT !.pc = "drain"]
    /\ UNCHANGED notRm

\* removePatterns for the next file which glob yields: the task is created, which prints the
\* dry run line or calls fs.rm, and is added to the task set; the loop waits when the set is full.
RmStart ==
    /\ rm.pc = "glob"
    /\ rm.queue # <<>>
    /\ LET path == Head(rm.queue)
           task == Len(rm.attempted) + 1
       IN  rm' = [rm EXCEPT !.queue = Tail(@),
                            !.attempted = Append(@, path),
                            !.tasks = @ \cup {task},
                            !.running = IF rm.opts.dryRun THEN @ ELSE @ \cup {task},
                            !.calls = IF rm.opts.dryRun THEN @ ELSE Append(@, path),
                            !.printed = IF rm.opts.dryRun THEN Append(@, ConsoleLog(WouldRemove(path))) ELSE @,
                            !.pc = IF MustWait(Cardinality(rm.tasks) + 1, rm.limit) THEN "wait" ELSE "glob"]
    /\ UNCHANGED notRm

\* removePatterns after Promise.race: leaves the loop when the task set has room again.
RmWait ==
    /\ rm.pc = "wait"
    /\ ~MustWait(Cardinality(rm.tasks), rm.limit)
    /\ rm' = [rm EXCEPT !.pc = "glob"]
    /\ UNCHANGED notRm

\* fs.rm of a task settles: the file is removed and reported in verbose mode, or the error is stored.
RmSettle(task) ==
    /\ task \in rm.running
    /\ LET path == rm.attempted[task]
           outcome == RmOutcome(path, rm.files, rm.protected, rm.opts.force)
       IN  rm' = [rm EXCEPT !.running = @ \ {task},
                            !.files = outcome.files,
                            !.errors = IF outcome.ok THEN @ ELSE Append(@, outcome.error),
                            !.printed = IF outcome.ok /\ rm.opts.verbose THEN Append(@, ConsoleLog(Removed(path)))
                                        ELSE @]
    /\ UNCHANGED notRm

\* The finally callback of a settled task deletes it from the task set.
RmFinally(task) ==
    /\ task \in rm.tasks \ rm.running
    /\ rm' = [rm EXCEPT !.tasks = @ \ {task}]
    /\ UNCHANGED notRm

\* An outcome of removePatterns which reports the first stored error only.
RmResultFirstError(errs) ==
    IF Len(errs) >= 1 THEN [status |-> "thrown", error |-> errs[1]]
    ELSE [status |-> "returned"]

\* The outcome of removePatterns for the stored errors.
RmResult(errs) ==
    IF Len(errs) = 1 THEN [status |-> "thrown", error |-> errs[1]]
    ELSE IF Len(errs) > 1 THEN [status |-> "thrown", error |-> RmAggregateError(errs)]
    ELSE [status |-> "returned"]

\* removePatterns after Promise.allSettled(tasks): throws the stored errors or returns.
RmDrain ==
    /\ rm.pc = "drain"
    /\ rm.tasks \cap rm.running = {}
    /\ rm' = [rm EXCEPT !.pc = "done", !.result = RmResult(rm.errors)]
    /\ UNCHANGED notRm

\* main of rm after removePatterns: returns 0, or prints the error and returns 1.
RmReturn ==
    /\ rm.pc = "done"
    /\ rm' = [rm EXCEPT !.pc = "exited",
                        !.exitCode = <<IF rm.result.status = "returned" THEN 0 ELSE 1>>,
                        !.printed = IF rm.result.status = "thrown"
                                    THEN Append(@, ConsoleError(RmErrorText(rm.result.error)))
                                    ELSE @]
    /\ UNCHANGED notRm

\* The options of an rm command line.
RmOptions(force, dryRun, verbose, limit) ==
    [help |-> FALSE, version |-> FALSE, force |-> force, dryRun |-> dryRun, verbose |-> verbose, limit |-> limit]

\* The state before `main` of rm is called.
RmInitWith(options, patterns, files, protected) ==
    /\ RunInitWith(FALSE, Argv(<<>>), Package(<<>>), DefaultEnv, DefaultTty, MainChunks)
    /\ level = <<>>
    /\ cp = [pc |-> "idle"]
    /\ rm = [pc |-> "main", opts |-> options, patterns |-> patterns, files |-> files, protected |-> protected,
             limit |-> NaN, pattern |-> 0, queue |-> <<>>, tasks |-> {}, running |-> {}, attempted |-> <<>>,
             calls |-> <<>>, errors |-> <<>>, result |-> [status |-> "pending"], printed |-> <<>>,
             exitCode |-> <<>>, before |-> files]

\* The values of the limit option: none, not a number, and the halves from -1/2 on.
AllLimits == {<<>>, <<NaN>>} \cup {<<Num(halves)>> : halves \in (0 - 1)..MaxLimitHalves}

\* The explored calls of rm: all files with every limit and every set of protected files, one or
\* two patterns on every file system, and the options which end `main` early.
RmInit ==
    \/ \E patterns \in {<<Paths>>, <<{"a.txt", "b.txt"}, {"c.txt"}>>}, protected \in SUBSET Paths,
          force \in BOOLEAN, dryRun \in BOOLEAN, verbose \in BOOLEAN, limit \in AllLimits :
           RmInitWith(RmOptions(force, dryRun, verbose, limit), patterns, Paths, protected)
    \/ \E patterns \in SeqsUpTo(SUBSET {"a.txt", "b.txt"} \ {{}}, 2), files \in SUBSET {"a.txt", "b.txt"},
          force \in BOOLEAN, dryRun \in BOOLEAN, limit \in {<<>>, <<Num(2)>>} :
           RmInitWith(RmOptions(force, dryRun, FALSE, limit), patterns, files, {})
    \/ \E isHelp \in BOOLEAN, isVersion \in BOOLEAN, patterns \in {<<>>, <<{"a.txt"}>>} :
           RmInitWith([RmOptions(FALSE, FALSE, FALSE, <<>>) EXCEPT !.help = isHelp, !.version = isVersion],
                      patterns, Paths, {})

RmNext ==
    \/ RmMain
    \/ RmNextPattern
    \/ RmStart
    \/ RmWait
    \/ \E task \in rm.tasks : RmSettle(task)
    \/ \E task \in rm.tasks : RmFinally(task)
    \/ RmDrain
    \/ RmReturn

RmSpec == RmInit /\ [][RmNext]_vars

----------------------------------------------------------------------------
(* cp: copy of files and directories *)

\* The entries which the file system can hold, as lists of path segments, in the order in which a
\* directory walk meets them (parents before children), and the directories among them.
CpOrder ==
    << <<"c.txt">>, <<"src">>, <<"src", "a.txt">>, <<"src", "b.png">>, <<"src", "deep">>,
       <<"src", "deep", "a.txt">>, <<"src", "deep", "b.png">> >>
CpEntries == {CpOrder[k] : k \in 1..Len(CpOrder)}
CpDirectories == {<<"src">>, <<"src", "deep">>}

\* The absolute path of the directory which the --cwd option names.
Cwd == <<"", "proj">>

\* One path segment against one segment of a glob pattern.
SegmentMatches(name, segment) ==
    CASE segment = "*" -> name # ""
      [] segment = "*.txt" -> name \in {"a.txt", "c.txt"}
      [] segment = "*.png" -> name \in {"b.png"}
      [] OTHER -> name = segment

\* matchesGlob(path, pattern) of node:path, where `**` stands for any number of segments.
RECURSIVE matchesGlob(_, _)
matchesGlob(path, pattern) ==
    IF pattern = <<>> THEN path = <<>>
    ELSE IF Head(pattern) = "**"
    THEN \/ matchesGlob(path, Tail(pattern))
         \/ path # <<>> /\ matchesGlob(Tail(path), pattern)
    ELSE /\ path # <<>>
         /\ SegmentMatches(Head(path), Head(pattern))
         /\ matchesGlob(Tail(path), Tail(pattern))

\* glob(source, { cwd }): the existing entries which the source pattern matches.
CpGlob(source, tree) == SelectSeq(CpOrder, LAMBDA entry : entry \in tree /\ matchesGlob(entry, source))

\* The errors which cp meets.
NoMatch(source) == [message |-> [text |-> "did not match any file or directory", path |-> source]]
IsDirectoryError(path) == [message |-> [text |-> "Recursive option not enabled, cannot copy a directory", path |-> path]]

\* getFiles which leaves out the sources without a match.
RECURSIVE getFilesIgnoringUnmatched(_, _)
getFilesIgnoringUnmatched(sources, tree) ==
    IF sources = <<>> THEN [status |-> "returned", files |-> <<>>]
    ELSE [status |-> "returned",
          files |-> CpGlob(Head(sources), tree) \o getFilesIgnoringUnmatched(Tail(sources), tree).files]

\* getFiles(sources, cwd): the matches of all sources, or the error of the first source without one.
RECURSIVE getFiles(_, _)
getFiles(sources, tree) ==
    IF sources = <<>> THEN [status |-> "returned", files |-> <<>>]
    ELSE LET found == CpGlob(Head(sources), tree)
             others == getFiles(Tail(sources), tree)
         IN  IF found = <<>> THEN [status |-> "thrown", error |-> NoMatch(Head(sources))]
             ELSE IF others.status = "thrown" THEN others
             ELSE [status |-> "returned", files |-> found \o others.files]

\* resolvePath(file, dir) for a relative file: unchanged without a directory.
resolvePath(file, dir) == IF dir = <<>> THEN file ELSE dir[1] \o file

\* relative(source, file) for a file at or below the source
relative(source, file) == SubSeq(file, Len(source) + 1, Len(file))

\* The path which fs.cp hands to the filter for an entry at or below the source.
FilterArgument(entry, opts) == resolvePath(entry, opts.cwd)

\* relativeFile of the filter
RelativeFile(source, file, opts) ==
    IF source = file \/ opts.parents \/ opts.cwd # <<>> THEN file ELSE relative(source, file)

\* filter(file) of copy for the file which fs.cp passes for the entry.
Filter(source, entry, opts) ==
    LET file == FilterArgument(entry, opts)
        relativeFile == RelativeFile(source, file, opts)
    IN  IF source = file THEN TRUE
        ELSE IF \E glob \in opts.exclude : matchesGlob(relativeFile, glob) THEN FALSE
        ELSE IF opts.include = {} \/ entry \in CpDirectories THEN TRUE
        ELSE \E glob \in opts.include : matchesGlob(relativeFile, glob)

\* The texts which cp prints.
CpHelpText == [text |-> "Usage: cp [OPTION]... [SOURCE]... DEST"]
CpVersionText == [text |-> "cp version"]
MissingDestination == [text |-> "cp: missing destination file operand", hint |-> "Try 'cp --help' for more information."]
MissingSource == [text |-> "cp: missing source file operand", hint |-> "Try 'cp --help' for more information."]
Filtering(path) == [text |-> "Filtering", path |-> path]
Excluding(path) == [text |-> "Excluding", path |-> path]
Including(path) == [text |-> "Including", path |-> path]
WouldCopy(source, destFile) == [text |-> "Would copy", path |-> source, to |-> destFile]
Copied(source, destFile) == [text |-> "Copied", path |-> source, to |-> destFile]
CpErrorText(error) == [prefix |-> "cp:", message |-> error.message]

\* The lines which filter(file) logs for the entry.
FilterLines(source, entry, opts) ==
    LET file == FilterArgument(entry, opts)
        relativeFile == RelativeFile(source, file, opts)
        excluded == \E glob \in opts.exclude : matchesGlob(relativeFile, glob)
        included == /\ ~excluded
                    /\ opts.include # {}
                    /\ entry \notin CpDirectories
                    /\ \E glob \in opts.include : matchesGlob(relativeFile, glob)
    IN  IF source = file \/ ~opts.verbose THEN <<>>
        ELSE (IF opts.include # {} \/ opts.exclude # {} THEN <<ConsoleLog(Filtering(relativeFile))>> ELSE <<>>)
             \o (IF excluded THEN <<ConsoleLog(Excluding(relativeFile))>> ELSE <<>>)
             \o (IF included THEN <<ConsoleLog(Including(relativeFile))>> ELSE <<>>)

\* The entries at or below a source.
IsAtOrBelow(source, entry) == Len(entry) >= Len(source) /\ SubSeq(entry, 1, Len(source)) = source

\* The entries for which fs.cp asks the filter: the source, and the content of every directory
\* which passed the filter.
Visited(source, tree, opts) ==
    {entry \in tree : /\ IsAtOrBelow(source, entry)
                      /\ \A k \in Len(source)..(Len(entry) - 1) : Filter(source, SubSeq(entry, 1, k), opts)}

\* The lines of the filter for the visited entries in the order of the walk.
RECURSIVE VisitLines(_, _, _, _)
VisitLines(order, source, visited, opts) ==
    IF order = <<>> THEN <<>>
    ELSE (IF Head(order) \in visited THEN FilterLines(source, Head(order), opts) ELSE <<>>)
         \o VisitLines(Tail(order), source, visited, opts)

\* fs.cp(resolvePath(source, cwd), destFile, { filter, ... }) on a destination which does not
\* exist yet: a source which the filter rejects is skipped, a directory needs the recursive
\* option, and the walk does not enter a directory which the filter rejects.
Cp(source, destFile, tree, opts) ==
    LET visited == Visited(source, tree, opts)
        kept == {entry \in visited : Filter(source, entry, opts)}
    IN  IF source \notin kept
        THEN [status |-> "returned", copied |-> {}, lines |-> FilterLines(source, source, opts)]
        ELSE IF source \in CpDirectories /\ ~opts.recursive
        THEN [status |-> "thrown", copied |-> {}, lines |-> FilterLines(source, source, opts),
              error |-> IsDirectoryError(FilterArgument(source, opts))]
        ELSE [status |-> "returned",
              copied |-> {[from |-> entry, to |-> destFile \o relative(source, entry)] : entry \in kept},
              lines |-> VisitLines(CpOrder, source, visited, opts)]

\* The variables which cp leaves alone.
notCp == <<parallel, commands, pc, current, child, promise, runningCommands, buffers, errors, result, out,
           sent, started, failed, buffered, argv, fs, env, tty, exitCode, printed, inspected, spawns,
           chunkLimit, level, rm>>

\* main of cp up to the call of copy: answers --help and --version and rejects a command line
\* without destination or without source.
CpMain ==
    /\ cp.pc = "main"
    /\ IF cp.opts.help \/ cp.opts.version
       THEN cp' = [cp EXCEPT !.pc = "exited", !.exitCode = <<0>>,
                             !.printed = Append(@, ConsoleLog(IF cp.opts.help THEN CpHelpText ELSE CpVersionText))]
       ELSE IF Len(cp.positionals) < 2
       THEN cp' = [cp EXCEPT !.pc = "exited", !.exitCode = <<2>>,
                             !.printed = Append(@, ConsoleError(IF cp.positionals = <<>> THEN MissingDestination
                                                                ELSE MissingSource))]
       ELSE cp' = [cp EXCEPT !.pc = "getFiles",
                             !.sources = SubSeq(cp.positionals, 1, Len(cp.positionals) - 1),
                             !.destination = cp.positionals[Len(cp.positionals)]]
    /\ UNCHANGED notCp

\* copy: getFiles collects the matches of all sources before anything else happens.
CpGetFiles ==
    /\ cp.pc = "getFiles"
    /\ LET found == getFiles(cp.sources, cp.tree)
       IN  IF found.status = "thrown"
           THEN cp' = [cp EXCEPT !.pc = "return", !.result = found]
           ELSE cp' = [cp EXCEPT !.pc = "mkdir", !.files = found.files]
    /\ UNCHANGED notCp

\* copy: with more than one file or with the parents option the destination is a directory,
\* which is created unless this is a dry run.
CpMkdir ==
    /\ cp.pc = "mkdir"
    /\ IF Len(cp.files) > 1 \/ cp.opts.parents
       THEN cp' = [cp EXCEPT !.pc = "copy", !.todo = cp.files, !.destIsDir = TRUE,
                             !.created = IF cp.opts.dryRun THEN @ ELSE @ \cup {cp.destination}]
       ELSE cp' = [cp EXCEPT !.pc = "copy", !.todo = cp.files]
    /\ UNCHANGED notCp

\* copy: one round of the loop over the files, which copies the next one or reports what a
\* copy would do; after the last file copy returns, and an error of fs.cp ends it at once.
CpCopy ==
    /\ cp.pc = "copy"
    /\ cp.todo # <<>>
    /\ LET source == Head(cp.todo)
           destFile == IF cp.destIsDir
                       THEN cp.destination \o (IF cp.opts.parents THEN source ELSE <<source[Len(source)]>>)
                       ELSE cp.destination
           outcome == Cp(source, destFile, cp.tree, cp.opts)
           rest == Tail(cp.todo)
           after == IF rest = <<>> THEN "return" ELSE "copy"
       IN  IF cp.opts.dryRun
           THEN cp' = [cp EXCEPT !.pc = after, !.todo = rest,
                                 !.result = IF rest = <<>> THEN [status |-> "returned"] ELSE @,
                                 !.printed = Append(@, ConsoleLog(WouldCopy(source, destFile)))]
           ELSE IF outcome.status = "thrown"
           THEN cp' = [cp EXCEPT !.pc = "return", !.result = [status |-> "thrown", error |-> outcome.error],
                                 !.printed = @ \o outcome.lines]
           ELSE cp' = [cp EXCEPT !.pc = after, !.todo = rest,
                                 !.result = IF rest = <<>> THEN [status |-> "returned"] ELSE @,
                                 !.copied = @ \cup outcome.copied,
                                 !.printed = @ \o outcome.lines
                                               \o (IF cp.opts.verbose THEN <<ConsoleLog(Copied(source, destFile))>>
                                                   ELSE <<>>)]
    /\ UNCHANGED notCp

\* main of cp after copy: returns 0, or prints the error and returns 1.
CpReturn ==
    /\ cp.pc = "return"
    /\ cp' = [cp EXCEPT !.pc = "exited",
                        !.exitCode = <<IF cp.result.status = "returned" THEN 0 ELSE 1>>,
                        !.printed = IF cp.result.status = "thrown"
                                    THEN Append(@, ConsoleError(CpErrorText(cp.result.error)))
                                    ELSE @]
    /\ UNCHANGED notCp

\* The options of a cp command line.
CpOptions(cwd, parents, recursive, dryRun, verbose, include, exclude) ==
    [help |-> FALSE, version |-> FALSE, cwd |-> cwd, parents |-> parents, recursive |-> recursive,
     dryRun |-> dryRun, verbose |-> verbose, include |-> include, exclude |-> exclude]

\* The state before `main` of cp is called, with a destination which does not exist.
CpInitWith(options, positionals, tree) ==
    /\ RunInitWith(FALSE, Argv(<<>>), Package(<<>>), DefaultEnv, DefaultTty, MainChunks)
    /\ level = <<>>
    /\ rm = [pc |-> "idle"]
    /\ cp = [pc |-> "main", opts |-> options, positionals |-> positionals, tree |-> tree, sources |-> <<>>,
             destination |-> <<>>, files |-> <<>>, destIsDir |-> FALSE, todo |-> <<>>, copied |-> {},
             created |-> {}, result |-> [status |-> "pending"], printed |-> <<>>, exitCode |-> <<>>]

\* The explored file systems, command lines and filters. The sources of one command line have
\* different base names, so that no copy meets the file of another one.
CpTrees ==
    {CpEntries, {<<"src">>, <<"src", "a.txt">>, <<"src", "deep">>, <<"src", "deep", "b.png">>}, {<<"c.txt">>}}
CpPositionals ==
    { << <<"src">>, <<"dest">> >>, << <<"src", "a.txt">>, <<"dest">> >>, << <<"src", "*">>, <<"dest">> >>,
      << <<"missing">>, <<"dest">> >>, << <<"src">>, <<"missing">>, <<"dest">> >>,
      << <<"missing">>, <<"c.txt">>, <<"dest">> >>, << <<"c.txt">>, <<"src">>, <<"dest">> >> }
CpIncludes == {{}, {<<"*.txt">>}, {<<"**", "*.txt">>}, {<<"deep", "a.txt">>, <<"*.png">>}}
CpExcludes == {{}, {<<"deep">>}, {<<"deep", "**", "*.txt">>}, {<<"**">>}, {<<"**", "*.txt">>}}

CpInit ==
    \/ \E tree \in CpTrees, positionals \in CpPositionals, include \in CpIncludes, exclude \in CpExcludes,
          cwd \in {<<>>, <<Cwd>>}, parents \in BOOLEAN, recursive \in BOOLEAN, dryRun \in BOOLEAN,
          verbose \in BOOLEAN :
           CpInitWith(CpOptions(cwd, parents, recursive, dryRun, verbose, include, exclude), positionals, tree)
    \/ \E isHelp \in BOOLEAN, isVersion \in BOOLEAN,
          positionals \in {<<>>, << <<"dest">> >>, << <<"src">>, <<"dest">> >>} :
           CpInitWith([CpOptions(<<>>, FALSE, FALSE, FALSE, FALSE, {}, {}) EXCEPT !.help = isHelp,
                                                                                 !.version = isVersion],
                      positionals, CpEntries)

CpNext ==
    \/ CpMain
    \/ CpGetFiles
    \/ CpMkdir
    \/ CpCopy
    \/ CpReturn

CpSpec == CpInit /\ [][CpNext]_vars

----------------------------------------------------------------------------
(* Definitions used by the properties *)

\* The children whose promise is rejected.
FailedChildren == {i \in Children : promise[i].state = "rejected"}

\* The children whose process is alive.
AliveChildren == {i \in Children : child[i] = "running"}

\* The positions of `out` which hold a chunk of child i.
WritesOf(i) == {k \in 1..Len(out) : out[k].text.child = i}

\* The chunks received so far, each with the pipe it arrived on.
ReceivedChunks == {Chunk(i, n, sent[i][n]) : <<i, n>> \in {<<i, n>> \in Children \X (1..MaxChunks + 1) : n <= Len(sent[i])}}

\* The texts written so far to the real streams.
WrittenChunks == {out[k].text : k \in 1..Len(out)}

----------------------------------------------------------------------------
(* Sequential mode *)

\* C1: in sequential mode, once a command has failed (non-zero exit or spawn failure) no later
\* command of the list is started, and `run` throws exactly the error of that command.
C1_SequentialHaltsOnFirstFailure ==
    ~IsParallel =>
        \A i \in FailedChildren :
            /\ \A j \in Children : j > i => child[j] = "idle" /\ promise[j].state = "none"
            /\ FailedChildren = {i}
            /\ promise[i].reason \in {SpawnError} \cup {ExitError(commands[i], code) : code \in ExitCodes \ {0}}
            /\ pc = "done" => result = [status |-> "thrown", error |-> promise[i].reason]
            /\ result.status # "returned"

\* Witness of C1: a sequential run has thrown after a failure and a later command was never started.
C1_Witness ==
    /\ ~IsParallel
    /\ pc = "done"
    /\ result.status = "thrown"
    /\ \E i \in FailedChildren : i > 1 /\ i < N /\ child[N] = "idle"

\* C2: in sequential mode the commands are started in list order, command i+1 only after command i
\* was closed with exit code 0 (its promise is fulfilled), and never is more than one child alive.
C2_SequentialOneAtATime ==
    ~IsParallel =>
        /\ Len(started) <= N
        /\ \A k \in 1..Len(started) : started[k] = k
        /\ \A k \in 2..Len(started) : child[k - 1] = "closed" /\ promise[k - 1].state = "fulfilled"
        /\ \A i \in Children : i > Len(started) => child[i] = "idle"
        /\ Cardinality(AliveChildren) <= 1

\* Witness of C2: the last command of a sequential run of three commands is alive.
C2_Witness ==
    /\ ~IsParallel
    /\ Len(started) = 3
    /\ child[3] = "running"

----------------------------------------------------------------------------
(* Parallel mode: settlement and errors *)

\* C3: in parallel mode every command of the list is started whatever happens to its siblings, and
\* `run` reports its result only when the promise of every command is settled and no child is alive.
C3_ParallelWaitsForAll ==
    IsParallel =>
        /\ pc # "start" => \A i \in Children : child[i] # "idle" /\ \E k \in 1..Len(started) : started[k] = i
        /\ result.status # "pending" =>
              /\ pc = "done"
              /\ \A i \in Children : promise[i].state \in {"fulfilled", "rejected"}
              /\ AliveChildren = {}

\* Witness of C3: the first command failed before a sibling wrote output and succeeded, and the
\* result is reported.
C3_Witness ==
    /\ IsParallel
    /\ result.status = "thrown"
    /\ failed = <<1>>
    /\ \E i \in Children : promise[i].state = "fulfilled" /\ \E k \in WritesOf(i) : out[k].text \notin buffered

\* C4: in parallel mode the result is the single error when exactly one command failed, and when
\* k >= 2 commands failed an aggregate error whose message states k and lists the message of every
\* failure in the order in which the failures happened; without a failure `run` returns.
C4_ParallelErrorReport ==
    (IsParallel /\ pc = "done") =>
        LET k == Cardinality(FailedChildren) IN
        /\ Len(failed) = k
        /\ k = 0 => result = [status |-> "returned"]
        /\ k = 1 => result = [status |-> "thrown", error |-> promise[failed[1]].reason]
        /\ k >= 2 =>
              result = [status |-> "thrown",
                        error |-> [message |-> [text |-> "Execution of commands failed",
                                                count |-> k,
                                                messages |-> [j \in 1..k |-> promise[failed[j]].reason.message]],
                                   errors |-> [j \in 1..k |-> promise[failed[j]].reason]]]

\* Witness of C4: an aggregate error of a batch in which a later command failed first.
C4_Witness ==
    /\ IsParallel
    /\ pc = "done"
    /\ Len(failed) >= 2
    /\ failed[1] > failed[2]
    /\ result.status = "thrown"


----------------------------------------------------------------------------
(* Parallel mode: output *)

\* The oldest child which is alive, or 0 when no child is alive.
OldestAlive == IF AliveChildren = {} THEN 0 ELSE CHOOSE i \in AliveChildren : \A j \in AliveChildren : i <= j

\* The children whose chunks would be written straight through to the real streams right now.
LiveChildren == {i \in AliveChildren : getPrimaryCommand(runningCommands) = commands[i]}

\* C5: at every instant of a parallel batch at most one alive child, the oldest one, has its chunks
\* written straight through; a chunk of any other alive child is buffered and not written then.
C5_OnlyPrimaryWritesLive ==
    [][IsParallel =>
          /\ Cardinality(LiveChildren) <= 1
          /\ \A i \in Children :
                sent'[i] # sent[i] =>
                    IF i = OldestAlive /\ LiveChildren = {i}
                    THEN out' # out /\ buffers' = buffers
                    ELSE out' = out /\ buffers' # buffers]_vars

\* C6: when a parallel batch has completed, every chunk received from a pipe of a child has been
\* written exactly once, to the real stream of the same name, and nothing else has been written.
C6_NoOutputLostOrDuplicated ==
    (IsParallel /\ pc = "done") =>
        /\ buffers = <<>>
        /\ WrittenChunks = ReceivedChunks
        /\ Len(out) = Cardinality(ReceivedChunks)
        /\ \A k \in 1..Len(out) : out[k].stream = out[k].text.pipe

\* Witness of C6: a completed batch with chunks of both pipes of which some were written live and
\* some were buffered first.
C6_Witness ==
    /\ IsParallel
    /\ pc = "done"
    /\ buffered # {}
    /\ WrittenChunks \ buffered # {}
    /\ \A pipe \in Pipes : \E text \in buffered : text.pipe = pipe

\* C7: the chunks of one child appear in the writes to the real streams in the order in which they
\* were received, whether they were written live or buffered and flushed later.
C7_PerCommandFifo ==
    \A i \in Children :
        \A k, l \in WritesOf(i) : k < l => out[k].text.seq < out[l].text.seq

\* Witness of C7: the first chunk of a child was buffered and flushed, its second chunk written live.
C7_Witness ==
    \E i \in Children :
        /\ Len(sent[i]) >= 2
        /\ Chunk(i, 1, sent[i][1]) \in buffered \cap WrittenChunks
        /\ Chunk(i, 2, sent[i][2]) \in WrittenChunks \ buffered

\* C8: in the writes to the real streams the chunks of one child form one contiguous block: no
\* chunk of another child is written between two chunks of the same child.
C8_OutputsNeverMixed ==
    \A k, l, m \in 1..Len(out) :
        (k < l /\ l < m /\ out[k].text.child = out[m].text.child) => out[l].text.child = out[k].text.child

\* C9: no chunk of a child is written to the real streams while a child which was started earlier
\* is alive.
C9_NoWriteWhileEarlierRuns ==
    [][\A k \in (Len(out) + 1)..Len(out') :
          \A j \in Children : j < out'[k].text.child => child'[j] # "running"]_vars

\* The first list position of each name which is in the running command set.
SurvivorPositions(running) ==
    {CHOOSE i \in Children : commands[i] = running[k] /\ \A j \in Children : commands[j] = running[k] => i <= j :
        k \in 1..Len(running)}

----------------------------------------------------------------------------
(* Exit code *)

\* A manifest exists in the working directory or in one of its parent directories.
ManifestReachable == \E dir \in fs.manifests : dir <= fs.cwd

\* `main` was called with at least one script name, without --help and --version.
ScriptsRequested == ~argv.help /\ ~argv.version /\ Len(argv.positionals) >= 1

\* The children which were started and closed with exit code 0.
SucceededChildren == {i \in Children : child[i] = "closed" /\ promise[i].state = "fulfilled"}

\* C11: given at least one script name and a reachable manifest, `main` returns 0 if and only if
\* every started command exited with code 0, and it returns 1 when one or more commands failed,
\* in sequential and in parallel mode.
C11_ExitCodeReflectsFailures ==
    (pc = "exited" /\ ScriptsRequested /\ ManifestReachable) =>
        /\ exitCode \in {<<0>>, <<1>>}
        /\ exitCode = <<0>> <=> \A k \in 1..Len(started) : started[k] \in SucceededChildren
        /\ FailedChildren # {} => exitCode = <<1>>
        /\ FailedChildren = {} => exitCode = <<0>>

\* Witness of C11: a parallel batch in which one command succeeded and another one failed has
\* returned exit code 1.
C11_Witness ==
    /\ pc = "exited"
    /\ IsParallel
    /\ ScriptsRequested
    /\ exitCode = <<1>>
    /\ SucceededChildren # {}
    /\ FailedChildren # {}

----------------------------------------------------------------------------
(* Script name resolution *)

\* The segments of a script name: the parts between its colons.
RECURSIVE Segments(_)
Segments(name) ==
    IF \A k \in 1..Len(name) : name[k] # ":" THEN <<name>>
    ELSE LET colon == CHOOSE k \in 1..Len(name) : name[k] = ":" /\ \A j \in 1..(k - 1) : name[j] # ":"
         IN  <<SubSeq(name, 1, colon - 1)>> \o Segments(SubSeq(name, colon + 1, Len(name)))

\* The script name consists of the prefix, a colon and the given number of further segments.
IsBelow(prefix, name, depth) ==
    /\ Len(Segments(name)) = Len(Segments(prefix)) + depth
    /\ SubSeq(Segments(name), 1, Len(Segments(prefix))) = Segments(prefix)

\* The resolved command list as sequences of characters must be these names.
ResolvedTo(names) == commands = [k \in 1..Len(names) |-> Join(names[k])]

\* The resolution of a single pattern has happened.
ResolvedSingle == pc = "start" /\ Len(argv.positionals) = 1

\* The only pattern of the command line, and its prefix when it ends with a colon and asterisks.
Pattern == argv.positionals[1]
PrefixOf(pattern, asterisks) == SubSeq(pattern, 1, Len(pattern) - 1 - asterisks)
HasForm(pattern, asterisks) ==
    /\ Len(pattern) >= 1 + asterisks
    /\ SubSeq(pattern, Len(pattern) - asterisks, Len(pattern)) = <<":">> \o [k \in 1..asterisks |-> "*"]
    /\ \A k \in 1..(Len(pattern) - 1 - asterisks) : pattern[k] # "*"

\* C12: resolving the pattern X:* yields exactly the names of the registry which consist of X:
\* and exactly one further non-empty segment without a colon, in the order of the registry.
C12_SingleAsteriskOneSegment ==
    (ResolvedSingle /\ HasForm(Pattern, 1)) =>
        ResolvedTo(SelectSeq(fs.scripts,
                             LAMBDA name : /\ IsBelow(PrefixOf(Pattern, 1), name, 1)
                                           /\ Segments(name)[Len(Segments(name))] # <<>>))

\* Witness of C12: x:* has selected two names against the alphabet in the order of a registry which
\* also holds a name two segments below x.
C12_Witness ==
    /\ ResolvedSingle
    /\ Pattern = <<"x", ":", "*">>
    /\ fs.scripts = <<<<"x", ":", "x">>, <<"x", ":", "x", ":", "x">>, <<"x", ":", ".">>>>
    /\ commands = <<"x:x", "x:.">>

\* C13: resolving the pattern X:** yields exactly the names of the registry which consist of X:
\* and one or more further segments (each of which may be empty), in the order of the registry,
\* and every name which X:* yields is among them.
C13_DoubleAsteriskAnyDepth ==
    (ResolvedSingle /\ HasForm(Pattern, 2)) =>
        /\ ResolvedTo(SelectSeq(fs.scripts,
                                LAMBDA name : \E depth \in 1..Len(name) : IsBelow(PrefixOf(Pattern, 2), name, depth)))
        /\ LET single == ResolveOne(PrefixOf(Pattern, 2) \o <<":", "*">>, fs.scripts) IN
           \A k \in 1..Len(single) : \E l \in 1..Len(commands) : commands[l] = Join(single[k])

\* Witness of C13: x:** has selected a name one segment and a name two segments below x, in the
\* order of the registry, and left out the name x.
C13_Witness ==
    /\ ResolvedSingle
    /\ Pattern = <<"x", ":", "*", "*">>
    /\ fs.scripts = <<<<"x", ":", "x", ":", "x">>, <<"x">>, <<"x", ":", "x">>>>
    /\ commands = <<"x:x:x", "x:x">>

\* C14: resolving a pattern P without asterisk yields exactly the list of P alone, whether or not
\* P is a name of the registry, and the resolution reports no error.
C14_LiteralPassesThrough ==
    (ResolvedSingle /\ \A k \in 1..Len(Pattern) : Pattern[k] # "*") =>
        /\ ResolvedTo(<<Pattern>>)
        /\ result.status = "pending"
        /\ printed = <<>>
        /\ exitCode = <<>>

\* Witness of C14: a name which the registry does not hold was resolved to itself.
C14_Witness ==
    /\ ResolvedSingle
    /\ Pattern = <<"x", ":", ".">>
    /\ fs.scripts = <<<<"x", ":", "x">>>>
    /\ commands = <<"x:.">>

\* The matches of each pattern in the order in which the registry declares them, one pattern
\* after the other.
RECURSIVE DeclaredMatches(_)
DeclaredMatches(patterns) ==
    IF patterns = <<>> THEN <<>>
    ELSE ResolveOne(Head(patterns), fs.scripts) \o DeclaredMatches(Tail(patterns))

\* The script name which a spawn call runs.
SpawnedCommand(call) == call.args[Len(call.args)]

\* C15: the resolved command list is the concatenation, in argument order, of the matches of each
\* pattern, each in the order in which the registry declares them, without deduplication; every
\* entry of the list is executed (a name which occurs twice, twice) and counted on its own.
C15_ConcatenatedWithoutDeduplication ==
    (pc # "main" /\ ScriptsRequested /\ ManifestReachable) =>
        /\ ResolvedTo(DeclaredMatches(argv.positionals))
        /\ Len(spawns) <= N
        /\ \A k \in 1..Len(spawns) : SpawnedCommand(spawns[k]) = commands[k]
        /\ (IsParallel /\ pc # "start") => Len(spawns) = N
        /\ (~IsParallel /\ FailedChildren = {} /\ pc \in {"done", "exited"}) => Len(spawns) = N
        /\ Len(failed) = Cardinality(FailedChildren)
        /\ IsParallel => Len(errors) = Len(failed)

\* The pattern has an asterisk and no script name of the registry matches it.
MatchesNothing(pattern) ==
    /\ \E k \in 1..Len(pattern) : pattern[k] = "*"
    /\ \A k \in 1..Len(fs.scripts) : ~Match(fs.scripts[k], commandToRegExp(pattern))

\* C16: a wildcard pattern which matches no script of the registry contributes no entry to the
\* resolved command list and is no error; when every pattern resolves to nothing, no child process
\* is started and `main` returns 0. The resolved command list never changes after the resolution.
C16_UnmatchedWildcardIsNoError ==
    /\ (pc = "start" /\ ScriptsRequested /\ ManifestReachable) =>
          /\ N = Len(resolveCommands(SelectSeq(argv.positionals, LAMBDA pattern : ~MatchesNothing(pattern)),
                                     ObjectKeys(fs.scripts)))
          /\ \A k \in 1..Len(argv.positionals) :
                MatchesNothing(argv.positionals[k]) => \A i \in Children : commands[i] # Join(argv.positionals[k])
          /\ (\A k \in 1..Len(argv.positionals) : MatchesNothing(argv.positionals[k])) => commands = <<>>
          /\ result.status = "pending"
    /\ (pc # "main" /\ ScriptsRequested /\ ManifestReachable /\ commands = <<>>) =>
          /\ spawns = <<>>
          /\ started = <<>>
          /\ result.status # "thrown"
          /\ printed = <<>>
          /\ pc \in {"start", "done", "exited"}
          /\ pc = "exited" => exitCode = <<0>>

\* Witness of C16: two wildcard patterns were resolved against a registry in which nothing matches
\* them, and `main` has returned 0 without a child process.
C16_Witness ==
    /\ pc = "exited"
    /\ Len(argv.positionals) = 2
    /\ \A k \in 1..2 : MatchesNothing(argv.positionals[k])
    /\ fs.scripts # <<>>
    /\ spawns = <<>>
    /\ exitCode = <<0>>

----------------------------------------------------------------------------
(* Usage and configuration errors *)

\* C17: with an empty list of script names and neither --help nor --version, `main` prints the
\* "missing script name" usage hint to the error stream and returns 2 without looking for a
\* manifest and without starting a command.
C17_MissingScriptName ==
    (pc # "main" /\ ~argv.help /\ ~argv.version /\ argv.positionals = <<>>) =>
        /\ pc = "exited"
        /\ exitCode = <<2>>
        /\ printed = <<[stream |-> "stderr",
                        text |-> [text |-> "run: missing script name", hint |-> "Try 'cmd --help' for more information."]]>>
        /\ inspected = <<>>
        /\ commands = <<>>
        /\ spawns = <<>>
        /\ started = <<>>

\* Witness of C17: `main` has returned 2 for an empty list in a directory without any manifest.
C17_Witness ==
    /\ pc = "exited"
    /\ argv.positionals = <<>>
    /\ ~argv.help /\ ~argv.version
    /\ ~ManifestReachable
    /\ exitCode = <<2>>

\* The directories from the given one up to the file system root.
RECURSIVE UpToRoot(_)
UpToRoot(dir) == IF dir = Root THEN <<dir>> ELSE <<dir>> \o UpToRoot(dir - 1)

\* C18: when script names are given and no manifest exists in the working directory or any of its
\* parent directories up to and including the file system root, `main` returns 1 and no command is
\* ever started.
C18_ManifestNotFound ==
    (pc # "main" /\ ScriptsRequested /\ ~ManifestReachable) =>
        /\ pc \in {"done", "exited"}
        /\ inspected = UpToRoot(fs.cwd)
        /\ result.status = "thrown"
        /\ commands = <<>>
        /\ spawns = <<>>
        /\ started = <<>>
        /\ pc = "exited" => exitCode = <<1>> /\ Len(printed) = 1 /\ printed[1].stream = "stderr"

\* Witness of C18: `main` has returned 1 after it looked into the working directory and its parent
\* directories, while a directory below the working directory holds a manifest.
C18_Witness ==
    /\ pc = "exited"
    /\ ScriptsRequested
    /\ Len(inspected) >= 2
    /\ fs.manifests # {}
    /\ ~ManifestReachable
    /\ exitCode = <<1>>

\* C19: when the environment variable npm_execpath is not set, `main` reports a fatal configuration
\* error on the error stream and returns 1 before any command is started, and nothing is written
\* to the standard output.
C19_MissingExecpathIsFatal ==
    (pc # "main" /\ ScriptsRequested /\ ManifestReachable /\ env.npm_execpath = Undefined) =>
        /\ spawns = <<>>
        /\ started = <<>>
        /\ \A k \in 1..Len(printed) : printed[k].stream = "stderr"
        /\ \A k \in 1..Len(out) : out[k].stream = "stderr"
        /\ pc = "exited" => exitCode = <<1>> /\ printed # <<>>

\* C20: when the resolved command list has exactly one entry, the run is the same with and without
\* the parallel flag: one plain execution with inherited standard streams and the environment of
\* the process, without the colour hint variable added, and no output is buffered or relayed.
C20_SingleEntryIgnoresParallel ==
    (pc # "main" /\ Len(commands) = 1) =>
        /\ Len(spawns) <= 1
        /\ pc # "start" => Len(spawns) = 1
        /\ \A k \in 1..Len(spawns) :
              /\ spawns[k].file = "npm"
              /\ spawns[k].args = <<"run">> \o (IF argv.silent THEN <<"-s">> ELSE <<>>) \o <<commands[1]>>
              /\ spawns[k].stdio = <<"inherit", "inherit", "inherit">>
              /\ spawns[k].env = env
        /\ runningCommands \in {<<>>, <<commands[1]>>}
        /\ buffers = <<>>
        /\ buffered = {}
        /\ out = <<>>
        /\ sent[1] = <<>>
        /\ errors = <<>>
        /\ result.status = "thrown" => result.error = promise[1].reason

\* Witness of C20: a single command was run with the parallel flag in an environment without the
\* colour hint variable, and `main` has returned.
C20_Witness ==
    /\ pc = "exited"
    /\ parallel
    /\ Len(commands) = 1
    /\ Len(spawns) = 1
    /\ env.FORCE_COLOR = Undefined
    /\ child[1] = "closed"

----------------------------------------------------------------------------
(* Child processes *)

\* The smaller colour depth of the two streams, 1 for a stream without getColorDepth.
SmallerDepth ==
    LET depthOf(stream) == IF stream = <<>> THEN 1 ELSE stream[1] IN
    IF depthOf(tty.stdout) <= depthOf(tty.stderr) THEN depthOf(tty.stdout) ELSE depthOf(tty.stderr)

\* The colour hint for the smaller colour depth.
ColourHint == IF SmallerDepth = 4 THEN "1" ELSE IF SmallerDepth = 8 THEN "2" ELSE IF SmallerDepth = 24 THEN "3" ELSE "0"

\* C21: every child is spawned with an environment equal to the environment of the process, except
\* that in a parallel batch FORCE_COLOR holds the colour level when the caller has not set it; a
\* FORCE_COLOR of the caller is passed through unchanged, and the environment of the process itself
\* is never modified.
C21_ChildEnvironment ==
    [][/\ env' = env
       /\ \A k \in (Len(spawns) + 1)..Len(spawns') :
             /\ spawns'[k].env.npm_execpath = env.npm_execpath
             /\ spawns'[k].env.FORCE_COLOR =
                   IF parallel /\ Len(commands) > 1 /\ env.FORCE_COLOR = "undefined" THEN ColourHint
                   ELSE env.FORCE_COLOR]_vars

\* Witness of C21: the children of a parallel batch got the hint for true colour in an environment
\* without FORCE_COLOR.
C21_Witness ==
    /\ parallel
    /\ Len(spawns) = 2
    /\ env.FORCE_COLOR = "undefined"
    /\ \A k \in 1..2 : spawns[k].env.FORCE_COLOR = "3"

\* C22: every child is invoked with the arguments `run`, then `-s` if and only if the silent option
\* was given, then the resolved script name as the last argument.
C22_ChildArguments ==
    /\ Len(spawns) = Len(started)
    /\ \A k \in 1..Len(spawns) :
          /\ spawns[k].file = "npm"
          /\ spawns[k].args = IF argv.silent THEN <<"run", "-s", commands[started[k]]>>
                              ELSE <<"run", commands[started[k]]>>

\* Witness of C22: both commands of a run with the silent option were invoked.
C22_Witness ==
    /\ argv.silent
    /\ Len(spawns) = 2
    /\ spawns[2].args = <<"run", "-s", "y">>

\* C23: when no manifest is found, `main` prints exactly the line "run: Unable to locate
\* package.json" to the error stream and nothing to the standard output.
C23_ManifestErrorMessage ==
    (pc = "exited" /\ ScriptsRequested /\ ~ManifestReachable) =>
        /\ printed = <<[stream |-> "stderr",
                        text |-> [prefix |-> "run:", message |-> [text |-> "Unable to locate package.json"]]]>>
        /\ out = <<>>

----------------------------------------------------------------------------
(* Colour level *)

\* C30: getColorLevel returns the level of the smaller of the colour depths of stdout and stderr:
\* 1 for depth 4, 2 for depth 8, 3 for depth 24 and 0 for every other depth, also when one of the
\* streams has no getColorDepth; the result is always in 0..3.
C30_ColorLevel ==
    level # <<>> =>
        /\ level[1] \in 0..3
        /\ (tty.stdout = <<>> \/ tty.stderr = <<>>) => level[1] = 0
        /\ (tty.stdout # <<>> /\ tty.stderr # <<>>) =>
              LET smaller == IF tty.stdout[1] <= tty.stderr[1] THEN tty.stdout[1] ELSE tty.stderr[1] IN
              /\ smaller = 4 => level[1] = 1
              /\ smaller = 8 => level[1] = 2
              /\ smaller = 24 => level[1] = 3
              /\ smaller \notin {4, 8, 24} => level[1] = 0

\* Witness of C30: level 2 for true colour on stdout and 256 colours on stderr.
C30_Witness ==
    /\ level = <<2>>
    /\ tty.stdout = <<24>>
    /\ tty.stderr = <<8>>

----------------------------------------------------------------------------
(* rm *)

\* The largest number of removals which may be in flight for the value given with --limit: the
\* value rounded down and raised to at least 1, and 64 when none is given.
AllowedInFlight ==
    IF rm.opts.limit = <<>> THEN 64
    ELSE LET roundedDown == rm.opts.limit[1].halves \div 2 IN
         IF roundedDown >= 1 THEN roundedDown ELSE 1

RemovalRequested == ~rm.opts.help /\ ~rm.opts.version /\ Len(rm.patterns) >= 1

\* The paths which exist before rm is called and are denoted by one of its patterns.
Matched == {path \in rm.before : \E k \in 1..Len(rm.patterns) : path \in rm.patterns[k]}

\* The paths for which the removal primitive was called.
Called == {rm.calls[k] : k \in 1..Len(rm.calls)}

\* C25: a failed removal does not stop rm: the removal of every matched file is attempted, rm
\* returns only when all removals have settled, and it returns 1 with the single error when exactly
\* one removal failed, or with one aggregate error which states the count and the message of every
\* failure when two or more failed.
C25_FailuresAreCollected ==
    (rm.pc \in {"done", "exited"} /\ RemovalRequested /\ ~rm.opts.dryRun) =>
        LET count == Len(rm.errors) IN
        /\ rm.running = {}
        /\ rm.queue = <<>>
        /\ Matched \subseteq Called
        /\ Len(rm.calls) = Len(rm.attempted)
        /\ rm.files = rm.before \ (Matched \ rm.protected)
        /\ \A path \in Matched \cap rm.protected : \E k \in 1..count : rm.errors[k].message.path = path
        /\ count = 0 => rm.result = [status |-> "returned"]
        /\ count = 1 => rm.result = [status |-> "thrown", error |-> rm.errors[1]]
        /\ count >= 2 =>
              rm.result = [status |-> "thrown",
                           error |-> [message |-> [text |-> "Failed to remove files", count |-> count,
                                                   messages |-> [k \in 1..count |-> rm.errors[k].message]],
                                      errors |-> rm.errors]]
        /\ rm.pc = "exited" =>
              /\ rm.exitCode = <<IF count = 0 THEN 0 ELSE 1>>
              /\ count >= 1 => rm.printed[Len(rm.printed)] =
                                  [stream |-> "stderr", text |-> [prefix |-> "rm:", message |-> rm.result.error.message]]

\* Witness of C25: with limit 1 the removals of the first two files failed, the third file was
\* removed after them, and rm has returned 1 with an aggregate error.
C25_Witness ==
    /\ rm.pc = "exited"
    /\ rm.exitCode = <<1>>
    /\ rm.opts.limit = <<[kind |-> "number", halves |-> 2]>>
    /\ rm.protected = {"a.txt", "b.txt"}
    /\ Len(rm.errors) = 2
    /\ rm.files = {"a.txt", "b.txt"}
    /\ rm.before = {"a.txt", "b.txt", "c.txt"}

\* The lines of a dry run: one for every existing path of every pattern, pattern by pattern.
RECURSIVE DryRunLines(_)
DryRunLines(patterns) ==
    IF patterns = <<>> THEN <<>>
    ELSE LET matches == SelectSeq(PathOrder, LAMBDA path : path \in Head(patterns) /\ path \in rm.before)
         IN  [k \in 1..Len(matches) |-> [stream |-> "stdout", text |-> [text |-> "would remove", path |-> matches[k]]]]
             \o DryRunLines(Tail(patterns))

C27_MissingPath ==
    (rm.pc = "exited" /\ RemovalRequested /\ ~rm.opts.dryRun
        /\ \E k \in 1..Len(rm.patterns) : \E path \in Paths \ rm.before : rm.patterns[k] = {path}) =>
        IF rm.opts.force
        THEN (Matched = {} => rm.exitCode = <<0>> /\ rm.files = rm.before)
        ELSE /\ rm.exitCode = <<1>>
             /\ rm.errors # <<>>
             /\ rm.printed # <<>>
             /\ rm.printed[Len(rm.printed)].stream = "stderr"

\* The entries which a finished cp has copied
CopiedEntries == {pair.from : pair \in cp.copied}

\* An entry passes the filters as such: no exclude pattern matches its path below the source, and
\* without include patterns, as a directory or with a matching include pattern it is included.
PassesFilters(source, entry) ==
    /\ ~\E glob \in cp.opts.exclude : matchesGlob(relative(source, entry), glob)
    /\ \/ cp.opts.include = {}
       \/ entry \in CpDirectories
       \/ \E glob \in cp.opts.include : matchesGlob(relative(source, entry), glob)

\* C28: after a recursive cp every source is copied, and an entry below a source is copied
\* exactly if it matches no exclude pattern and is a directory, matches an include pattern or
\* meets no include pattern at all.
C28_FiltersDecideWhatIsCopied ==
    (cp.pc = "exited" /\ cp.exitCode = <<0>> /\ cp.files # <<>> /\ cp.opts.recursive /\ ~cp.opts.dryRun)
        => \A k \in 1..Len(cp.files) :
               /\ cp.files[k] \in CopiedEntries
               /\ \A entry \in cp.tree :
                      IsAtOrBelow(cp.files[k], entry) /\ entry # cp.files[k]
                          => (entry \in CopiedEntries <=> PassesFilters(cp.files[k], entry))

\* Some source of the command line matches nothing
UnmatchedSources == {k \in 1..Len(cp.sources) : CpGlob(cp.sources[k], cp.tree) = <<>>}

\* C29: when a source of cp matches no file or directory, nothing is copied and nothing is
\* created at any time, also not for the sources which match, and cp ends with exit code 1
\* and the error of the first such source.
C29_UnmatchedSourceCopiesNothing ==
    (cp.pc \notin {"idle", "main"} /\ UnmatchedSources # {})
        => /\ cp.copied = {}
           /\ cp.created = {}
           /\ cp.pc = "exited" =>
                  /\ cp.exitCode = <<1>>
                  /\ cp.printed = <<ConsoleError(CpErrorText(NoMatch(
                         cp.sources[CHOOSE k \in UnmatchedSources : \A other \in UnmatchedSources : k <= other])))>>

C29_Witness ==
    /\ cp.pc = "exited"
    /\ Len(cp.sources) = 2
    /\ UnmatchedSources = {2}
    /\ ~cp.opts.dryRun
    /\ cp.opts.recursive
    /\ cp.exitCode = <<1>>

----------------------------------------------------------------------------
(* The engine after `run` *)

\* C31: when `run` has returned or thrown, whether the commands exited with 0, exited with another
\* code or could not be spawned, the running command set and the buffer map are empty.
C31_NothingCarriesOver ==
    pc = "done" => runningCommands = <<>> /\ buffers = <<>>

\* The step of `run` which flushes the remaining buffers of a parallel batch.
FinalFlush == IsParallel /\ pc = "await" /\ pc' = "done"

\* C32 as stated: the final flush of a parallel batch writes the remaining buffers in the order
\* in which their commands were started.
C32_FinalFlushInStartOrder ==
    [][FinalFlush =>
          \A k, l \in (Len(out) + 1)..Len(out') : k < l => out'[k].text.child <= out'[l].text.child]_vars

\* The entries of all buffers of the map, buffer by buffer in the order of the map.
RECURSIVE AllBuffered(_)
AllBuffered(map) == IF map = <<>> THEN <<>> ELSE Head(map).data \o AllBuffered(Tail(map))

\* The commands which have a buffer, in the order of the map.
BufferOrder(map) == [k \in 1..Len(map) |-> map[k].command]

\* C32: the final flush of a parallel batch writes the remaining buffers one after the other in
\* the order in which they were created, which is the order in which their commands had their
\* first chunk buffered: a new buffer is always the last one of the map, and the buffers keep
\* their order until they are flushed.
C32_FinalFlushInBufferOrder ==
    [][/\ FinalFlush => out' = out \o AllBuffered(buffers) /\ buffers' = <<>>
       /\ \A i \in Children :
             (sent'[i] # sent[i] /\ ~HasBuffer(buffers, commands[i]) /\ HasBuffer(buffers', commands[i]))
                 => BufferOrder(buffers') = Append(BufferOrder(buffers), commands[i])
       /\ \A k, l \in 1..Len(buffers') :
             (k < l /\ HasBuffer(buffers, buffers'[k].command) /\ HasBuffer(buffers, buffers'[l].command))
                 => \E m, n \in 1..Len(buffers) :
                       /\ m < n
                       /\ buffers[m].command = buffers'[k].command
                       /\ buffers[n].command = buffers'[l].command]_vars

\* Witness of C32: the first command ended last, so that the chunks of the second and the third
\* were left to the final flush, which wrote the chunk of the third before that of the second.
C32_Witness ==
    /\ IsParallel
    /\ pc = "done"
    /\ commands = <<"a", "b", "c">>
    /\ Len(failed) = 3
    /\ failed[3] = 1
    /\ Len(out) = 2
    /\ out[1].text.child = 3
    /\ out[2].text.child = 2

----------------------------------------------------------------------------
(* Wildcard tokens *)

\* The tokens match the segments when `*` stands for one non-empty segment and `**` for any
\* number of segments, none included.
RECURSIVE MatchesAnyNumber(_, _)
MatchesAnyNumber(tokens, segments) ==
    IF tokens = <<>> THEN segments = <<>>
    ELSE IF Head(tokens) = <<"*", "*">>
    THEN \/ MatchesAnyNumber(Tail(tokens), segments)
         \/ segments # <<>> /\ MatchesAnyNumber(tokens, Tail(segments))
    ELSE /\ segments # <<>>
         /\ IF Head(tokens) = <<"*">> THEN Head(segments) # <<>> ELSE Head(segments) = Head(tokens)
         /\ MatchesAnyNumber(Tail(tokens), Tail(segments))

\* The tokens match the segments when `*` stands for one non-empty segment and `**` for one or
\* more segments, each of which may be empty.
RECURSIVE MatchesOneOrMore(_, _)
MatchesOneOrMore(tokens, segments) ==
    IF tokens = <<>> THEN segments = <<>>
    ELSE /\ segments # <<>>
         /\ IF Head(tokens) = <<"*", "*">>
            THEN MatchesOneOrMore(Tail(tokens), Tail(segments)) \/ MatchesOneOrMore(tokens, Tail(segments))
            ELSE /\ IF Head(tokens) = <<"*">> THEN Head(segments) # <<>> ELSE Head(segments) = Head(tokens)
                 /\ MatchesOneOrMore(Tail(tokens), Tail(segments))

\* The resolution of a single pattern with an asterisk has happened.
ResolvedWildcard == ResolvedSingle /\ \E k \in 1..Len(Pattern) : Pattern[k] = "*"

\* C33 as stated: a pattern of tokens selects the names of which every `*` takes exactly one
\* non-empty segment and every `**` any number of segments, none included, whatever the place
\* of the token, and which the pattern covers from the first to the last character.
C33_DoubleAsteriskAnyNumber ==
    ResolvedWildcard =>
        ResolvedTo(SelectSeq(fs.scripts, LAMBDA name : MatchesAnyNumber(Segments(Pattern), Segments(name))))

\* C33: a pattern of tokens selects the names of which every `*` takes exactly one non-empty
\* segment without colon and every `**` one or more segments, which may be empty, whatever the
\* place of the token, and which the pattern covers from the first to the last character.
C33_DoubleAsteriskOneOrMore ==
    ResolvedWildcard =>
        ResolvedTo(SelectSeq(fs.scripts, LAMBDA name : MatchesOneOrMore(Segments(Pattern), Segments(name))))

\* Witness of C33: `**` in the middle of a pattern has taken two segments of a name.
C33_Witness ==
    /\ ResolvedWildcard
    /\ Pattern = <<"x", ":", "*", "*", ":", "x">>
    /\ fs.scripts = <<<<"x", ":", "y", ":", "x", ":", "x">>>>
    /\ commands = <<"x:y:x:x">>

----------------------------------------------------------------------------
(* Failures *)

\* C34: the error of every failed command, of one which could not be spawned as of one which
\* exited with a code other than 0, names the command.
C34_FailureNamesCommand ==
    \A i \in FailedChildren :
        /\ "command" \in DOMAIN promise[i].reason.message
        /\ promise[i].reason.message.command = commands[i]

----------------------------------------------------------------------------
(* Parallel mode: start *)

\* Nothing of any child was handled so far: no chunk, no error event and no close event.
NoEventHandled ==
    /\ \A i \in Children : child[i] = "idle" /\ sent[i] = <<>> /\ promise[i].state = "none"
    /\ out = <<>>
    /\ buffers = <<>>
    /\ failed = <<>>

\* C35: in parallel mode the commands of the list are started once for each place of the list
\* and in the order of the list, all of them in the one step of `run` before which no event of
\* a child was handled, however many they are; no later step starts a command.
C35_ParallelStartsAllAtOnce ==
    [][IsParallel =>
          IF pc = "start"
          THEN /\ NoEventHandled
               /\ started = <<>>
               /\ pc' = "await"
               /\ started' = [i \in Children |-> i]
               /\ Len(spawns') = Len(spawns) + N
               /\ \A i \in Children :
                     /\ spawns'[Len(spawns) + i] = Spawn(commands[i], TRUE)
                     /\ child'[i] \in {"running", "failing"}
          ELSE started' = started /\ spawns' = spawns]_vars

\* Witness of C35: the three children of a list with a repeated name are alive at the same time
\* and nothing of them was handled yet.
C35_Witness ==
    /\ IsParallel
    /\ pc = "await"
    /\ commands = <<"a", "b", "a">>
    /\ started = <<1, 2, 3>>
    /\ AliveChildren = {1, 2, 3}
    /\ \A i \in Children : sent[i] = <<>>

----------------------------------------------------------------------------
(* Manifest search *)

\* The nearest directory with a manifest at or above the working directory.
NearestManifest == CHOOSE dir \in fs.manifests : dir <= fs.cwd /\ \A other \in fs.manifests : other <= fs.cwd => other <= dir

\* C36: the search for the manifest looks into the working directory and then into one parent
\* directory after the other, stops at the first directory which holds a manifest without a look
\* further up, and otherwise ends with an error after the look into the file system root; it
\* looks into no directory twice.
C36_NearestManifestIsFound ==
    (pc # "main" /\ ScriptsRequested) =>
        /\ Len(inspected) >= 1
        /\ inspected[1] = fs.cwd
        /\ \A k \in 2..Len(inspected) : inspected[k] = Dirname(inspected[k - 1]) /\ inspected[k] # inspected[k - 1]
        /\ \A k \in 1..(Len(inspected) - 1) : inspected[k] \notin fs.manifests
        /\ IF ManifestReachable
           THEN inspected[Len(inspected)] = NearestManifest /\ (pc = "start" => result.status = "pending")
           ELSE inspected[Len(inspected)] = Root /\ result = [status |-> "thrown", error |-> ManifestError]

\* Witness of C36: the search started two directories below the root and stopped one directory
\* further up at a manifest, although the root holds a manifest as well.
C36_Witness ==
    /\ pc = "start"
    /\ ScriptsRequested
    /\ fs.cwd = 2
    /\ fs.manifests = {Root, 1}
    /\ inspected = <<2, 1>>

----------------------------------------------------------------------------
(* Settlement *)

\* The children whose promise is rejected after the step.
FailedChildrenAfter == {i \in Children : promise'[i].state = "rejected"}

\* C37: in parallel mode a settled promise never changes again, whatever event of its child
\* follows, so that each child is recorded as failed at most once: the gathered errors are the
\* rejection reasons of the failed children, one for each, in the order of the rejections.
C37_OneFailurePerCommand ==
    [][IsParallel =>
          /\ \A i \in Children : promise[i].state \in {"fulfilled", "rejected"} => promise'[i] = promise[i]
          /\ Len(errors') = Cardinality(FailedChildrenAfter)
          /\ Len(failed') = Len(errors')
          /\ \A k \in 1..Len(failed') :
                /\ failed'[k] \in FailedChildrenAfter
                /\ errors'[k] = promise'[failed'[k]].reason
                /\ \A l \in 1..Len(failed') : k # l => failed'[k] # failed'[l]]_vars

\* Witness of C37: a child which could not be spawned was closed after its error event, and the
\* batch has ended with the error of the spawn as its only error although a sibling succeeded.
C37_Witness ==
    /\ IsParallel
    /\ pc = "done"
    /\ \E i \in Children : child[i] = "closed" /\ promise[i] = [state |-> "rejected", reason |-> SpawnError]
    /\ \E i \in Children : promise[i].state = "fulfilled"
    /\ errors = <<SpawnError>>
    /\ result = [status |-> "thrown", error |-> SpawnError]

----------------------------------------------------------------------------
(* The primary command *)

\* Child i is alive and its chunks are written straight through.
IsPrimary(i) == child[i] = "running" /\ getPrimaryCommand(runningCommands) = commands[i]

\* C38: a running child which is the primary has no buffer, and it is still the primary and
\* still without buffer after every step which does not end it.
C38_PrimaryStaysPrimary ==
    [][IsParallel =>
          \A i \in Children :
              IsPrimary(i) =>
                  /\ ~HasBuffer(buffers, commands[i])
                  /\ child'[i] = "running" =>
                        /\ getPrimaryCommand(runningCommands') = commands[i]
                        /\ ~HasBuffer(buffers', commands[i])]_vars

----------------------------------------------------------------------------
(* Termination *)

\* C39: when every child which is alive exits at some time and every child which could not be
\* spawned reports its error at some time, `main` returns an exit code at some time, in sequential
\* and in parallel mode and for every order of the events of the children.
C39_RunReturns == <>(pc = "exited" /\ exitCode \in {<<0>>, <<1>>, <<2>>})

\* Witness of C39: `main` has returned after a parallel batch of which one child could not be
\* spawned and was not closed yet, while another one wrote a chunk and exited.
C39_Witness ==
    /\ pc = "exited"
    /\ IsParallel
    /\ \E i \in Children : child[i] = "errored"
    /\ \E i \in Children : child[i] = "closed" /\ sent[i] # <<>>
    /\ exitCode = <<1>>

====
